---- MODULE Spec2Model ----
(***************************************************************************)
(* Voice command interpreter of the cockpit assistant (src/src/App.tsx).   *)
(* Texts are TLA+ strings, handled character by character with Len,        *)
(* SubSeq, Head, Tail and \o, so that containment, lowercasing, trimming   *)
(* and splitting are computed as the JavaScript string methods compute     *)
(* them.                                                                   *)
(***************************************************************************)
EXTENDS Integers, Sequences, FiniteSets, TLC

VARIABLES
  checklists,           \* useState checklists: the mapping, in key iteration order
  routes,               \* useState routes
  aerodromes,           \* useState aerodromes
  activeRouteId,        \* useState activeRouteId
  appState,             \* useState appState
  logs,                 \* useState logs
  activeChecklist,      \* useState activeChecklist: <<>> is null, <<c>> a checklist
  checklistIndex,       \* useState checklistIndex
  isSpeaking,           \* useState isSpeaking
  isRecognitionEnabled, \* useState isRecognitionEnabled
  listeningMode,        \* useState listeningMode
  lastSpoken,           \* lastSpokenRef.current
  synth,                \* window.speechSynthesis: <<>> or the one utterance in flight
  stateRef,             \* stateRef.current
  last,                 \* observation: what the latest handler run did
  run,                  \* observation: successive 'siguiente' since a selection
  rec                   \* the recognition sessions, recognitionRef.current and the timers

vars == <<checklists, routes, aerodromes, activeRouteId, appState, logs,
          activeChecklist, checklistIndex, isSpeaking, isRecognitionEnabled,
          listeningMode, lastSpoken, synth, stateRef, last, run, rec>>

-----------------------------------------------------------------------------
(* Bounds of the model *)

\* Handlers that append to the session log run while it is shorter than this.
MaxLog == 5

-----------------------------------------------------------------------------
(* Letters with a diacritic.  TLC does not keep a character beyond ASCII    *)
(* when it stores a state, so each of these letters is written as one ASCII *)
(* character that the texts of the program never hold: a text of the model  *)
(* and the text of the program have the same length and the same            *)
(* substrings, place by place.                                              *)

aacute == "@"
eacute == "&"
iacute == "!"
oacute == "*"
uacute == "^"
udiaeresis == "="
ntilde == "~"
iquestion == ";"
Aacute == "#"
Eacute == "$"
Iacute == "|"
Oacute == "+"
Uacute == "<"
Udiaeresis == ">"
Ntilde == "["

-----------------------------------------------------------------------------
(* JavaScript string methods *)

\* s.includes(t)
Includes(s, t) ==
  \E i \in 1..(Len(s) - Len(t) + 1) : SubSeq(s, i, i + Len(t) - 1) = t

\* s.indexOf(t) + 1: the 1-based place of the first occurrence, 0 when absent
IndexOf(s, t) ==
  IF Includes(s, t)
  THEN CHOOSE i \in 1..(Len(s) - Len(t) + 1) :
         /\ SubSeq(s, i, i + Len(t) - 1) = t
         /\ \A j \in 1..(i - 1) : SubSeq(s, j, j + Len(t) - 1) # t
  ELSE 0

LowerChar(c) ==
  CASE c = "A" -> "a" [] c = "B" -> "b" [] c = "C" -> "c" [] c = "D" -> "d"
    [] c = "E" -> "e" [] c = "F" -> "f" [] c = "G" -> "g" [] c = "H" -> "h"
    [] c = "I" -> "i" [] c = "J" -> "j" [] c = "K" -> "k" [] c = "L" -> "l"
    [] c = "M" -> "m" [] c = "N" -> "n" [] c = "O" -> "o" [] c = "P" -> "p"
    [] c = "Q" -> "q" [] c = "R" -> "r" [] c = "S" -> "s" [] c = "T" -> "t"
    [] c = "U" -> "u" [] c = "V" -> "v" [] c = "W" -> "w" [] c = "X" -> "x"
    [] c = "Y" -> "y" [] c = "Z" -> "z"
    [] c = Aacute -> aacute [] c = Eacute -> eacute [] c = Iacute -> iacute [] c = Oacute -> oacute
    [] c = Uacute -> uacute [] c = Udiaeresis -> udiaeresis [] c = Ntilde -> ntilde
    [] OTHER -> c

\* s.toLowerCase()
RECURSIVE ToLowerCase(_)
ToLowerCase(s) ==
  IF s = "" THEN "" ELSE LowerChar(Head(s)) \o ToLowerCase(Tail(s))

RECURSIVE TrimStart(_)
TrimStart(s) ==
  IF s # "" /\ Head(s) = " " THEN TrimStart(Tail(s)) ELSE s

RECURSIVE TrimEnd(_)
TrimEnd(s) ==
  IF s # "" /\ SubSeq(s, Len(s), Len(s)) = " "
  THEN TrimEnd(SubSeq(s, 1, Len(s) - 1))
  ELSE s

\* s.trim() (the transcripts hold no white space but the space character)
Trim(s) == TrimEnd(TrimStart(s))

\* s.split(sep)[1] for an s that includes sep: the text between the first
\* occurrence of sep and the second one (the end of s when there is no second)
SplitSecond(s, sep) ==
  LET rest == SubSeq(s, IndexOf(s, sep) + Len(sep), Len(s))
      j    == IndexOf(rest, sep)
  IN IF j = 0 THEN rest ELSE SubSeq(rest, 1, j - 1)

\* parts.join(sep)
RECURSIVE Join(_, _)
Join(parts, sep) ==
  IF parts = <<>> THEN ""
  ELSE IF Len(parts) = 1 THEN parts[1]
  ELSE parts[1] \o sep \o Join(Tail(parts), sep)

-----------------------------------------------------------------------------
(* Repository data *)

null == <<>>

\* Checklists as read from the persisted blob 'copiloto_checklists'. The
\* field array names the items array of the object: two records with the same
\* array are one object in the program, changed in place together.
PersistedChecklists ==
  << [id |-> "prevuelo", name |-> "Prevuelo", array |-> "prevuelo",
      items |-> << [id |-> "1", text |-> ("Documentaci" \o oacute \o "n del avi" \o oacute \o "n a bordo")],
                   [id |-> "2", text |-> ("Inspecci" \o oacute \o "n exterior general")] >>],
     [id |-> "vuelo", name |-> "Vuelo", array |-> "vuelo",
      items |-> << [id |-> "1", text |-> ("Alt" \o iacute \o "metro ajustado")] >>] >>

\* What the checklist editor holds when 'Crear' is pressed with a name typed
\* in and no item added.
EditedChecklists ==
  { [id |-> "", name |-> "Vacia", array |-> "", items |-> <<>>] }

PersistedRoutes ==
  << [id |-> "1", name |-> "Norte", array |-> "1",
      puntosRuta |-> << [id |-> "1", name |-> "Salida", heading |-> "090",
                         altitude |-> "2000 ft", ceiling |-> "3500 ft",
                         notes |-> "Sector Este"],
                       [id |-> "2", name |-> "Hita", heading |-> "120",
                         altitude |-> "2500 ft", ceiling |-> "4000 ft",
                         notes |-> "Antena en la cima"] >>],
     [id |-> "2", name |-> "Sur", array |-> "2",
      puntosRuta |-> << [id |-> "1", name |-> "Presa", heading |-> "270",
                         altitude |-> "1500 ft", ceiling |-> "3000 ft",
                         notes |-> ""] >>] >>

PersistedAerodromes ==
  << [id |-> "1", code |-> "LECI", name |-> "Casarrubios",
      elevation |-> "2000 ft", runways |-> <<>>,
      frequencies |-> << "123.500" >>,
      observations |-> ("Frecuencia auto-informaci" \o oacute \o "n.")],
     [id |-> "2", code |-> "LEOC", name |-> ("Oca" \o ntilde \o "a"),
      elevation |-> "", runways |-> <<>>,
      frequencies |-> << "123.500" >>,
      observations |-> ""],
     [id |-> "3", code |-> "LEMT", name |-> "Casarrubios del Monte",
      elevation |-> "625 m", runways |-> <<>>,
      frequencies |-> <<>>,
      observations |-> ""] >>

-----------------------------------------------------------------------------
(* One run of a handler.  The state setters of React only enqueue: a run    *)
(* reads the session state from stateRef.current and its arguments, and its *)
(* effects are collected in a record e, the last value set winning.         *)

\* The effects of a run that has done nothing yet.
Effects ==
  [ appState        |-> appState,
    activeChecklist |-> activeChecklist,
    checklistIndex  |-> checklistIndex,
    activeRouteId   |-> activeRouteId,
    logs            |-> logs,
    isSpeaking      |-> isSpeaking,
    lastSpoken      |-> lastSpoken,
    synth           |-> synth,
    said            |-> <<>>,     \* the texts passed to speak, in order
    stopped         |-> FALSE,    \* stopSpeaking was called
    dropped         |-> FALSE,    \* the guard of handleCommand returned
    dispatched      |-> <<>>,     \* the argument cmd of processActualCommand
    modeAtDispatch  |-> appState, \* the mode set when processActualCommand began
    selected        |-> <<>>,     \* the checklist a selection found
    threw           |-> FALSE ]   \* the run ended by a TypeError

\* synthesisRef.current.cancel(): the queue of the synthesis is emptied
cancel(e) == [e EXCEPT !.synth = <<>>]

\* speak without the cancel: the new utterance queues behind the others.
speakQueues(e, text) ==
  [e EXCEPT !.lastSpoken = text,
            !.synth = Append(@, [text |-> text, phase |-> "pending"]),
            !.said = Append(@, text)]

\* speak(text): remember the text, cancel the utterance in flight, hand a new
\* one to the synthesis (its onstart comes later)
speak(e, text) ==
  [cancel([e EXCEPT !.lastSpoken = text])
     EXCEPT !.synth = Append(@, [text |-> text, phase |-> "pending"]),
            !.said = Append(@, text)]

\* stopSpeaking without the setIsSpeaking(false).
stopSpeakingKeepsFlag(e) ==
  [e EXCEPT !.synth = <<>>, !.stopped = TRUE]

\* stopSpeaking(): cancel the synthesis, setIsSpeaking(false)
stopSpeaking(e) ==
  [e EXCEPT !.synth = <<>>, !.isSpeaking = FALSE, !.stopped = TRUE]

\* A log that shows the newest entry first.
addLogNewestFirst(e, text, type) ==
  [e EXCEPT !.logs = << [text |-> text, type |-> type] >> \o @]

\* addLog(text, type); the random id and the timestamp are left out
addLog(e, text, type) ==
  [e EXCEPT !.logs = Append(@, [text |-> text, type |-> type])]

\* routes.find(r => r.id === activeRouteId) || routes[0] || {id: 'none', ...}
ActiveRoute(rs, rid) ==
  LET hit == {i \in 1..Len(rs) : rs[i].id = rid}
  IN IF hit # {} THEN rs[CHOOSE i \in hit : \A j \in hit : i <= j]
     ELSE IF Len(rs) > 0 THEN rs[1]
     ELSE [id |-> "none", name |-> "Sin Ruta", puntosRuta |-> <<>>]

\* The for loop over Object.keys(currentChecklists): the first checklist, in
\* key order, whose lowercased name the command includes; null when none.
findChecklist(cmd, currentChecklists) ==
  LET hit == {i \in 1..Len(currentChecklists) :
                Includes(cmd, ToLowerCase(currentChecklists[i].name))}
  IN IF hit = {} THEN null
     ELSE << currentChecklists[CHOOSE i \in hit : \A j \in hit : i <= j] >>

\* Object.values(currentChecklists).map(c => c.name)
RECURSIVE Names(_)
Names(cls) ==
  IF cls = <<>> THEN <<>> ELSE <<cls[1].name>> \o Names(Tail(cls))

\* "2. Checklist Commands": the branch of a command that includes 'checklist'
selectChecklist(cmd, currentChecklists, e) ==
  LET target == findChecklist(cmd, currentChecklists)
  IN IF target # null
     THEN LET t  == target[1]
              e1 == [e EXCEPT !.activeChecklist = target,
                              !.checklistIndex = 0,
                              !.appState = "checklist",
                              !.selected = target]
          IN IF Len(t.items) = 0
             THEN [e1 EXCEPT !.threw = TRUE]   \* target.items[0] is undefined
             ELSE LET msg == "Iniciando checklist " \o t.name
                               \o ". Primer punto: " \o t.items[1].text
                  IN addLog(speak(e1, msg), msg, "system")
     ELSE speak(e, "No he reconocido esa checklist. Las opciones son: "
                     \o Join(Names(currentChecklists), ", "))

\* The advance with the end test off by one (<= for <): the index runs one
\* past the last item before the checklist is completed.
advanceChecklistOffByOne(currentActiveChecklist, currentChecklistIndex, e) ==
  LET c         == currentActiveChecklist[1]
      nextIndex == currentChecklistIndex + 1
  IN IF nextIndex <= Len(c.items)
     THEN IF nextIndex = Len(c.items)
          THEN [e EXCEPT !.checklistIndex = nextIndex, !.threw = TRUE]
          ELSE addLog(speak([e EXCEPT !.checklistIndex = nextIndex],
                            c.items[nextIndex + 1].text),
                      c.items[nextIndex + 1].text, "system")
     ELSE [e EXCEPT !.appState = "idle", !.activeChecklist = null,
                    !.checklistIndex = -1]

\* "3. Checklist Progression", 'check' / 'hecho' / 'siguiente'
advanceChecklist(currentActiveChecklist, currentChecklistIndex, e) ==
  LET c         == currentActiveChecklist[1]
      nextIndex == currentChecklistIndex + 1
  IN IF nextIndex < Len(c.items)
     THEN IF nextIndex < 0
          THEN [e EXCEPT !.checklistIndex = nextIndex, !.threw = TRUE]
          ELSE LET nextItem == c.items[nextIndex + 1].text
               IN addLog(speak([e EXCEPT !.checklistIndex = nextIndex], nextItem),
                         nextItem, "system")
     ELSE LET msg == "Checklist " \o c.name \o " completada."
          IN [addLog(speak(e, msg), msg, "system")
                EXCEPT !.appState = "idle",
                       !.activeChecklist = null,
                       !.checklistIndex = -1]

\* The restart without the setChecklistIndex(0).
restartChecklistKeepsIndex(currentActiveChecklist, e) ==
  LET c == currentActiveChecklist[1]
  IN IF Len(c.items) = 0
     THEN [e EXCEPT !.threw = TRUE]
     ELSE LET firstItem == c.items[1].text
          IN addLog(speak(e, "Reiniciando checklist. Primer punto: " \o firstItem),
                    "Reiniciando checklist " \o c.name \o ". Primer punto: "
                      \o firstItem,
                    "system")

\* "3. Checklist Progression", 'reiniciar' / 'empezar de nuevo'
restartChecklist(currentActiveChecklist, e) ==
  LET c  == currentActiveChecklist[1]
      e1 == [e EXCEPT !.checklistIndex = 0]
  IN IF Len(c.items) = 0
     THEN [e1 EXCEPT !.threw = TRUE]
     ELSE LET firstItem == c.items[1].text
          IN addLog(speak(e1, "Reiniciando checklist. Primer punto: " \o firstItem),
                    "Reiniciando checklist " \o c.name \o ". Primer punto: "
                      \o firstItem,
                    "system")

\* The help branch with the reset of the cancel branch.
helpCommandEndsChecklist(e) ==
  LET help == ("Puedes decir: Leer checklist, datos de aer" \o oacute \o "dromo, plan de vuelo, repetir o cancelar.")
  IN [addLog(speak(e, help), help, "system")
        EXCEPT !.appState = "idle", !.activeChecklist = null, !.checklistIndex = -1]

\* "5. Help"
helpCommand(e) ==
  LET help == ("Puedes decir: Leer checklist, datos de aer" \o oacute \o "dromo, plan de vuelo, repetir o cancelar.")
  IN addLog(speak(e, help), help, "system")

\* The cancel branch without the reset of the index.
cancelCommandKeepsIndex(cmd, e) ==
  LET e1 == stopSpeaking(e)
  IN IF Includes(cmd, "cancelar")
     THEN [speak(e1, ("Operaci" \o oacute \o "n cancelada"))
             EXCEPT !.appState = "idle", !.activeChecklist = null]
     ELSE addLog(e1, "Lectura detenida", "system")

\* "6. Cancel / Stop"
cancelCommand(cmd, e) ==
  LET e1 == stopSpeaking(e)
  IN IF Includes(cmd, "cancelar")
     THEN [speak(e1, ("Operaci" \o oacute \o "n cancelada"))
             EXCEPT !.appState = "idle",
                    !.activeChecklist = null,
                    !.checklistIndex = -1]
     ELSE addLog(e1, "Lectura detenida", "system")

\* "7. Repeat"
repeatCommand(e) ==
  IF e.lastSpoken # ""
  THEN addLog(speak(e, e.lastSpoken), "Repitiendo: " \o e.lastSpoken, "system")
  ELSE speak(e, "No hay nada que repetir.")

-----------------------------------------------------------------------------
(* "4. Flight Plan": plan selection and waypoint queries *)

IsDigit(c) == c \in {"0", "1", "2", "3", "4", "5", "6", "7", "8", "9"}

\* s.substr of length Len(w) at i equals w
WordAt(s, i, w) ==
  i + Len(w) - 1 <= Len(s) /\ SubSeq(s, i, i + Len(w) - 1) = w

\* \s* from place i on: the place after the spaces
RECURSIVE SkipSpaces(_, _)
SkipSpaces(s, i) ==
  IF i <= Len(s) /\ SubSeq(s, i, i) = " " THEN SkipSpaces(s, i + 1) ELSE i

\* \d+ from place i on: the place after the digits
RECURSIVE SkipDigits(_, _)
SkipDigits(s, i) ==
  IF i <= Len(s) /\ IsDigit(SubSeq(s, i, i)) THEN SkipDigits(s, i + 1) ELSE i

\* The alternatives of the capturing group, in the order the regex tries them.
NumberWords ==
  << "uno", "una", "un", "dos", "tres", "cuatro", "cinco", "seis", "siete",
     "ocho", "nueve", "diez" >>

\* (uno|una|un|...|diez) at place i: the first alternative found there, ""
\* when none
NumberWordAt(s, i) ==
  LET hit == {k \in 1..Len(NumberWords) : WordAt(s, i, NumberWords[k])}
  IN IF hit = {} THEN ""
     ELSE NumberWords[CHOOSE k \in hit : \A l \in hit : k <= l]

\* The capture between the places i and j - 1 when \d+ matched up to j
DigitsOrWord(s, i, j) ==
  IF j > i THEN SubSeq(s, i, j - 1) ELSE NumberWordAt(s, i)

\* (\d+|uno|una|un|...|diez) at place i: the text captured, "" when none
OrdinalAt(s, i) == DigitsOrWord(s, i, SkipDigits(s, i))

\* (?:de\s*ruta\s*)? at place a: the place after the group, a when it is absent
AfterDeRuta(s, a) ==
  IF WordAt(s, a, "de") /\ WordAt(s, SkipSpaces(s, a + 2), "ruta")
  THEN SkipSpaces(s, SkipSpaces(s, a + 2) + 4)
  ELSE a

\* x || y on texts
OrElse(x, y) == IF x # "" THEN x ELSE y

\* The capture of the regex anchored at an occurrence p of 'punto': with the
\* optional group when that leads to a match, without it otherwise.
OrdinalAfterSpaces(s, a) ==
  OrElse(OrdinalAt(s, AfterDeRuta(s, a)), OrdinalAt(s, a))

OrdinalAfterPunto(s, p) == OrdinalAfterSpaces(s, SkipSpaces(s, p + 5))

\* The least number of a non-empty set of numbers
Least(S) == CHOOSE i \in S : \A j \in S : i <= j

\* cmd.match(/punto\s*(?:de\s*ruta\s*)?(\d+|uno|...|diez)/i)[1]: the capture of
\* the leftmost match, "" when the regex does not match
numMatchAmong(cmd, hit) ==
  IF hit = {} THEN "" ELSE OrdinalAfterPunto(cmd, Least(hit))

numMatch(cmd) ==
  numMatchAmong(cmd, {p \in 1..Len(cmd) :
                        WordAt(cmd, p, "punto") /\ OrdinalAfterPunto(cmd, p) # ""})

DigitValue(c) ==
  CASE c = "0" -> 0 [] c = "1" -> 1 [] c = "2" -> 2 [] c = "3" -> 3
    [] c = "4" -> 4 [] c = "5" -> 5 [] c = "6" -> 6 [] c = "7" -> 7
    [] c = "8" -> 8 [] c = "9" -> 9

\* parseInt(val) of a text of digits
RECURSIVE ParseInt(_)
ParseInt(val) ==
  IF val = "" THEN 0
  ELSE 10 * ParseInt(SubSeq(val, 1, Len(val) - 1))
         + DigitValue(SubSeq(val, Len(val), Len(val)))

\* spanishNumberToDigit(text) || 0
spanishNumberWord(t) ==
  CASE t \in {"uno", "una", "un"} -> 1
    [] t = "dos" -> 2 [] t = "tres" -> 3 [] t = "cuatro" -> 4
    [] t = "cinco" -> 5 [] t = "seis" -> 6 [] t = "siete" -> 7
    [] t = "ocho" -> 8 [] t = "nueve" -> 9 [] t = "diez" -> 10
    [] OTHER -> 0

spanishNumberToDigit(text) == spanishNumberWord(ToLowerCase(text))

\* The index taken as 0-based: the - 1 left out.
OrdinalIndexNotShifted(val) ==
  IF IsDigit(SubSeq(val, 1, 1)) THEN ParseInt(val)
  ELSE spanishNumberToDigit(val)

\* isNaN(parseInt(val)) ? (spanishNumberToDigit(val) || 0) - 1 : parseInt(val) - 1
OrdinalIndex(val) ==
  IF IsDigit(SubSeq(val, 1, 1)) THEN ParseInt(val) - 1
  ELSE spanishNumberToDigit(val) - 1

\* s with the places from i to j - 1 cut out
Without(s, i, j) == SubSeq(s, 1, i - 1) \o SubSeq(s, j, Len(s))

\* cmd.replace(/punto\s*(?:de\s*ruta\s*)?/i, '').trim(), p the place of the
\* first 'punto' (0 when there is none)
cleanCmdAt(cmd, p) ==
  IF p = 0 THEN Trim(cmd)
  ELSE Trim(Without(cmd, p, AfterDeRuta(cmd, SkipSpaces(cmd, p + 5))))

cleanCmd(cmd) == cleanCmdAt(cmd, IndexOf(cmd, "punto"))

\* puntosRuta.find(wp => cleanCmd.includes(wp.name.toLowerCase())
\*                       || cmd.includes(wp.name.toLowerCase())), as <<wp>> or <<>>
FirstOf(pts, hit) == IF hit = {} THEN <<>> ELSE << pts[Least(hit)] >>

puntoByName(cmd, clean, pts) ==
  FirstOf(pts, {i \in 1..Len(pts) :
                  \/ Includes(clean, ToLowerCase(pts[i].name))
                  \/ Includes(cmd, ToLowerCase(pts[i].name))})

\* The waypoint at a 0-based index, as <<wp>>, or <<>> when out of range
puntoByIndex(pts, index) ==
  IF index >= 0 /\ index < Len(pts) THEN << pts[index + 1] >> ELSE <<>>

\* The waypoint the regex capture val stands for, <<>> when val is "" or out
\* of range
puntoByOrdinal(pts, val) ==
  IF val = "" THEN <<>> ELSE puntoByIndex(pts, OrdinalIndex(val))

\* found || other on waypoints
OrElsePunto(found, other) == IF found # <<>> THEN found ELSE other

\* "4b": the waypoint a query resolves to, as <<wp>>, or <<>>: by ordinal
\* when the regex matches and the index is in range, by name otherwise
targetPunto(cmd, currentRoute) ==
  OrElsePunto(puntoByOrdinal(currentRoute.puntosRuta, numMatch(cmd)),
              puntoByName(cmd, cleanCmd(cmd), currentRoute.puntosRuta))

\* speak(response); addLog(response, 'system')
say(e, response) == addLog(speak(e, response), response, "system")

\* (currentRoute.puntosRuta || []).map((wp, i) => `${i + 1}: ${wp.name}`)
PuntoLabels(pts) ==
  [i \in 1..Len(pts) |-> ToString(i) \o ": " \o pts[i].name]

\* "4a. Select Flight Plan by Name": currentRoutes.find(...), as <<r>> or <<>>
targetPlan(cmd, currentRoutes) ==
  FirstOf(currentRoutes, {i \in 1..Len(currentRoutes) :
                            Includes(cmd, ToLowerCase(currentRoutes[i].name))})

\* The reply to a plan selection without the setActiveRouteId.
planLoadedKeepsRoute(plan, e) ==
  say(e, "Plan de vuelo " \o plan.name \o " cargado. Tiene "
           \o ToString(Len(plan.puntosRuta)) \o " puntos de ruta.")

\* The reply to a plan selection
planLoaded(plan, e) ==
  say([e EXCEPT !.activeRouteId = plan.id],
      "Plan de vuelo " \o plan.name \o " cargado. Tiene "
        \o ToString(Len(plan.puntosRuta)) \o " puntos de ruta.")

\* The reply to a query that resolved to a waypoint
puntoDetails(wp, e) ==
  say(e, "Punto de ruta " \o wp.name \o ". Rumbo " \o wp.heading
           \o " grados, Altitud " \o wp.altitude \o ", Techo " \o wp.ceiling
           \o ". Notas: " \o wp.notes)

\* The reply to a query that resolved to no waypoint: the list of the plan
puntoList(name, info, e) ==
  addLog(speak(e, "El plan " \o name \o " tiene: " \o info
                    \o (". " \o iquestion \o "De cu" \o aacute \o "l quieres detalles?")),
         "Plan " \o name \o ": " \o info, "system")

puntoReply(found, currentRoute, e) ==
  IF found # <<>> THEN puntoDetails(found[1], e)
  ELSE puntoList(currentRoute.name,
                 Join(PuntoLabels(currentRoute.puntosRuta), ", "), e)

planReply(plan, cmd, currentRoute, e) ==
  IF plan # <<>> THEN planLoaded(plan[1], e)
  ELSE puntoReply(targetPunto(cmd, currentRoute), currentRoute, e)

\* The branch of a command that includes 'plan de vuelo', 'punto' or 'ruta'
routeCommand(cmd, currentRoutes, currentRoute, e) ==
  IF \/ Includes(cmd, "cargar")
     \/ Includes(cmd, "seleccionar")
     \/ Includes(cmd, "activar")
  THEN planReply(targetPlan(cmd, currentRoutes), cmd, currentRoute, e)
  ELSE puntoReply(targetPunto(cmd, currentRoute), currentRoute, e)

-----------------------------------------------------------------------------
(* Text normalizer and the aerodrome query *)

UpperChar(c) ==
  CASE c = "a" -> "A" [] c = "b" -> "B" [] c = "c" -> "C" [] c = "d" -> "D"
    [] c = "e" -> "E" [] c = "f" -> "F" [] c = "g" -> "G" [] c = "h" -> "H"
    [] c = "i" -> "I" [] c = "j" -> "J" [] c = "k" -> "K" [] c = "l" -> "L"
    [] c = "m" -> "M" [] c = "n" -> "N" [] c = "o" -> "O" [] c = "p" -> "P"
    [] c = "q" -> "Q" [] c = "r" -> "R" [] c = "s" -> "S" [] c = "t" -> "T"
    [] c = "u" -> "U" [] c = "v" -> "V" [] c = "w" -> "W" [] c = "x" -> "X"
    [] c = "y" -> "Y" [] c = "z" -> "Z"
    [] c = aacute -> Aacute [] c = eacute -> Eacute [] c = iacute -> Iacute [] c = oacute -> Oacute
    [] c = uacute -> Uacute [] c = udiaeresis -> Udiaeresis [] c = ntilde -> Ntilde
    [] OTHER -> c

\* PHONETIC_ALPHABET[char] || char
Phonetic(c) ==
  CASE c = "A" -> "Alfa" [] c = "B" -> "Bravo" [] c = "C" -> "Charlie"
    [] c = "D" -> "Delta" [] c = "E" -> "Echo" [] c = "F" -> "Foxtrot"
    [] c = "G" -> "Golf" [] c = "H" -> "Hotel" [] c = "I" -> "India"
    [] c = "J" -> "Juliett" [] c = "K" -> "Kilo" [] c = "L" -> "Lima"
    [] c = "M" -> "Mike" [] c = "N" -> "November" [] c = "O" -> "Oscar"
    [] c = "P" -> "Papa" [] c = "Q" -> "Quebec" [] c = "R" -> "Romeo"
    [] c = "S" -> "Sierra" [] c = "T" -> "Tango" [] c = "U" -> "Uniform"
    [] c = "V" -> "Victor" [] c = "W" -> "Whiskey" [] c = "X" -> "X-ray"
    [] c = "Y" -> "Yankee" [] c = "Z" -> "Zulu"
    [] c = "0" -> "cero" [] c = "1" -> "uno" [] c = "2" -> "dos"
    [] c = "3" -> "tres" [] c = "4" -> "cuatro" [] c = "5" -> "cinco"
    [] c = "6" -> "seis" [] c = "7" -> "siete" [] c = "8" -> "ocho"
    [] c = "9" -> "nueve"
    [] OTHER -> c

\* spellAeronautical(text)
spellAeronautical(text) ==
  Join([i \in 1..Len(text) |-> Phonetic(UpperChar(SubSeq(text, i, i)))], " ")

\* readFrequency(freq)
readFrequency(freq) ==
  Join([i \in 1..Len(freq) |->
          IF SubSeq(freq, i, i) = "." THEN "decimal"
          ELSE Phonetic(SubSeq(freq, i, i))], " ")

SlopeWord(c) ==
  CASE c = "-" -> "menos" [] c = "." -> "punto" [] c = "%" -> "porciento"
    [] c = " " -> "" [] OTHER -> Phonetic(c)

\* words.filter(Boolean)
RECURSIVE FilterNonEmpty(_)
FilterNonEmpty(ws) ==
  IF ws = <<>> THEN <<>>
  ELSE (IF ws[1] = "" THEN <<>> ELSE <<ws[1]>>) \o FilterNonEmpty(Tail(ws))

\* readSlope(slope)
readSlope(slope) ==
  Join(FilterNonEmpty([i \in 1..Len(slope) |-> SlopeWord(SubSeq(slope, i, i))]),
       " ")

\* \w of a JavaScript regex without the u flag
IsWordChar(c) ==
  \/ IsDigit(c)
  \/ c = "_"
  \/ c \in {"a", "b", "c", "d", "e", "f", "g", "h", "i", "j", "k", "l", "m",
            "n", "o", "p", "q", "r", "s", "t", "u", "v", "w", "x", "y", "z"}
  \/ c \in {"A", "B", "C", "D", "E", "F", "G", "H", "I", "J", "K", "L", "M",
            "N", "O", "P", "Q", "R", "S", "T", "U", "V", "W", "X", "Y", "Z"}

\* \b between the places i and i + 1 of s (0 and Len(s) are the two ends)
Boundary(s, i) ==
  LET before == i >= 1 /\ IsWordChar(SubSeq(s, i, i))
      after  == i + 1 <= Len(s) /\ IsWordChar(SubSeq(s, i + 1, i + 1))
  IN before # after

\* s.replace(/\bw\b/gi, r) from place i on, for a lowercase word w
RECURSIVE ReplaceWord(_, _, _, _)
ReplaceWord(s, i, w, r) ==
  IF i > Len(s) THEN ""
  ELSE IF /\ i + Len(w) - 1 <= Len(s)
          /\ ToLowerCase(SubSeq(s, i, i + Len(w) - 1)) = w
          /\ Boundary(s, i - 1)
          /\ Boundary(s, i + Len(w) - 1)
       THEN r \o ReplaceWord(s, i + Len(w), w, r)
       ELSE SubSeq(s, i, i) \o ReplaceWord(s, i + 1, w, r)

\* normalizeUnitsForSpeech(text)
normalizeUnitsForSpeech(text) ==
  IF text = "" THEN ""
  ELSE Trim(ReplaceWord(ReplaceWord(text, 1, "m", " metros"), 1, "ft", " pies"))

\* One runway of readRunways
RunwayDetails(r) ==
  "pista " \o Join([i \in 1..Len(r.number) |-> Phonetic(SubSeq(r.number, i, i))], " ")
    \o " circuito a " \o ToLowerCase(r.circuit)
    \o (IF r.length # "" THEN ", longitud " \o normalizeUnitsForSpeech(r.length) ELSE "")
    \o (IF r.width # "" THEN ", ancho " \o normalizeUnitsForSpeech(r.width) ELSE "")
    \o (IF r.material # "" THEN ", superficie de " \o r.material ELSE "")
    \o (IF r.slope # "" THEN (", inclinaci" \o oacute \o "n ") \o readSlope(r.slope) ELSE "")

\* readRunways(runways)
readRunways(runways) ==
  Join([i \in 1..Len(runways) |-> RunwayDetails(runways[i])], ". ")

\* One character of s.normalize("NFD").replace(/[\u0300-\u036f]/g, "")
BaseChar(c) ==
  CASE c = aacute -> "a" [] c = eacute -> "e" [] c = iacute -> "i" [] c = oacute -> "o"
    [] c = uacute -> "u" [] c = udiaeresis -> "u" [] c = ntilde -> "n"
    [] c = Aacute -> "A" [] c = Eacute -> "E" [] c = Iacute -> "I" [] c = Oacute -> "O"
    [] c = Uacute -> "U" [] c = Udiaeresis -> "U" [] c = Ntilde -> "N"
    [] OTHER -> c

\* s.normalize("NFD").replace(/[\u0300-\u036f]/g, "").toLowerCase()
RECURSIVE stripAccents(_)
stripAccents(s) ==
  IF s = "" THEN ""
  ELSE LowerChar(BaseChar(Head(s))) \o stripAccents(Tail(s))

\* The search with the names taken as they are, accents kept.
targetAeroNamesNotStripped(cmd, currentAerodromes) ==
  LET normalizedCmd == stripAccents(cmd)
      hit == {i \in 1..Len(currentAerodromes) :
                \/ Includes(normalizedCmd, ToLowerCase(currentAerodromes[i].name))
                \/ Includes(normalizedCmd, ToLowerCase(currentAerodromes[i].code))}
  IN IF hit # {}
     THEN << currentAerodromes[CHOOSE i \in hit : \A j \in hit : i <= j] >>
     ELSE IF Len(currentAerodromes) > 0 THEN << currentAerodromes[1] >>
     ELSE <<>>

\* currentAerodromes.find(...) || currentAerodromes[0], as <<a>>; <<>> when the
\* list is empty
targetAero(cmd, currentAerodromes) ==
  LET normalizedCmd == stripAccents(cmd)
      hit == {i \in 1..Len(currentAerodromes) :
                \/ Includes(normalizedCmd, stripAccents(currentAerodromes[i].name))
                \/ Includes(normalizedCmd, ToLowerCase(currentAerodromes[i].code))}
  IN IF hit # {}
     THEN << currentAerodromes[CHOOSE i \in hit : \A j \in hit : i <= j] >>
     ELSE IF Len(currentAerodromes) > 0 THEN << currentAerodromes[1] >>
     ELSE <<>>

\* The branch of a command that includes 'aeródromo', 'aerodromo' or 'pistas'
aerodromeCommand(cmd, currentAerodromes, e) ==
  IF targetAero(cmd, currentAerodromes) = <<>>
  THEN [e EXCEPT !.threw = TRUE]          \* aero is undefined: aero.code throws
  ELSE LET aero      == targetAero(cmd, currentAerodromes)[1]
           elevation == normalizeUnitsForSpeech(aero.elevation)
           freqs     == Join([i \in 1..Len(aero.frequencies) |->
                                readFrequency(aero.frequencies[i])], " y ")
           response  == ("Aer" \o oacute \o "dromo ") \o aero.name \o (", c" \o oacute \o "digo ")
                          \o spellAeronautical(aero.code) \o (". Elevaci" \o oacute \o "n ")
                          \o (IF elevation # "" THEN elevation ELSE "no especificada")
                          \o ". " \o readRunways(aero.runways) \o ". Frecuencias "
                          \o freqs \o ". " \o aero.observations
       IN addLog(speak(e, response), response, "system")

-----------------------------------------------------------------------------
(* The command interpreter *)

\* The cascade with the progression tested before the selection.
processActualCommandProgressionFirst(cmd, currentAppState, currentActiveChecklist, currentChecklistIndex, ref, e0) ==
  LET e == [e0 EXCEPT !.dispatched = <<cmd>>, !.modeAtDispatch = e0.appState]
      inChecklist == currentAppState = "checklist" /\ currentActiveChecklist # null
  IN IF /\ inChecklist
        /\ \/ Includes(cmd, "check")
           \/ Includes(cmd, "hecho")
           \/ Includes(cmd, "siguiente")
     THEN advanceChecklist(currentActiveChecklist, currentChecklistIndex, e)
     ELSE IF Includes(cmd, "leer checklist") \/ Includes(cmd, "checklist")
     THEN selectChecklist(cmd, ref.checklists, e)
     ELSE IF /\ inChecklist
             /\ (Includes(cmd, "reiniciar") \/ Includes(cmd, "empezar de nuevo"))
     THEN restartChecklist(currentActiveChecklist, e)
     ELSE IF \/ Includes(cmd, "plan de vuelo")
             \/ Includes(cmd, "punto")
             \/ Includes(cmd, "ruta")
             \/ Includes(cmd, "punto de ruta")
             \/ Includes(cmd, "punto ruta")
     THEN routeCommand(cmd, ref.routes, ActiveRoute(ref.routes, ref.activeRouteId), e)
     ELSE IF \/ Includes(cmd, ("aer" \o oacute \o "dromo"))
             \/ Includes(cmd, "aerodromo")
             \/ Includes(cmd, "pistas")
     THEN aerodromeCommand(cmd, ref.aerodromes, e)
     ELSE IF Includes(cmd, "opciones") \/ Includes(cmd, "ayuda")
     THEN helpCommand(e)
     ELSE IF \/ Includes(cmd, "cancelar")
             \/ Includes(cmd, "parar")
             \/ Includes(cmd, "copiloto parar")
             \/ Includes(cmd, "silencio")
     THEN cancelCommand(cmd, e)
     ELSE IF Includes(cmd, "repetir") \/ Includes(cmd, "repite")
     THEN repeatCommand(e)
     ELSE e

\* The cascade with the repeat as the answer to every other command.
processActualCommandRepeatsByDefault(cmd, currentAppState, currentActiveChecklist, currentChecklistIndex, ref, e0) ==
  LET e == [e0 EXCEPT !.dispatched = <<cmd>>, !.modeAtDispatch = e0.appState]
      inChecklist == currentAppState = "checklist" /\ currentActiveChecklist # null
  IN IF Includes(cmd, "leer checklist") \/ Includes(cmd, "checklist")
     THEN selectChecklist(cmd, ref.checklists, e)
     ELSE IF /\ inChecklist
             /\ \/ Includes(cmd, "check")
                \/ Includes(cmd, "hecho")
                \/ Includes(cmd, "siguiente")
     THEN advanceChecklist(currentActiveChecklist, currentChecklistIndex, e)
     ELSE IF /\ inChecklist
             /\ (Includes(cmd, "reiniciar") \/ Includes(cmd, "empezar de nuevo"))
     THEN restartChecklist(currentActiveChecklist, e)
     ELSE IF \/ Includes(cmd, "plan de vuelo")
             \/ Includes(cmd, "punto")
             \/ Includes(cmd, "ruta")
             \/ Includes(cmd, "punto de ruta")
             \/ Includes(cmd, "punto ruta")
     THEN routeCommand(cmd, ref.routes, ActiveRoute(ref.routes, ref.activeRouteId), e)
     ELSE IF \/ Includes(cmd, ("aer" \o oacute \o "dromo"))
             \/ Includes(cmd, "aerodromo")
             \/ Includes(cmd, "pistas")
     THEN aerodromeCommand(cmd, ref.aerodromes, e)
     ELSE IF Includes(cmd, "opciones") \/ Includes(cmd, "ayuda")
     THEN helpCommand(e)
     ELSE IF \/ Includes(cmd, "cancelar")
             \/ Includes(cmd, "parar")
             \/ Includes(cmd, "copiloto parar")
             \/ Includes(cmd, "silencio")
     THEN cancelCommand(cmd, e)
     ELSE repeatCommand(e)

\* processActualCommand(cmd, currentAppState, currentActiveChecklist,
\* currentChecklistIndex): the cascade, the first branch whose test holds
processActualCommand(cmd, currentAppState, currentActiveChecklist, currentChecklistIndex, ref, e0) ==
  LET e == [e0 EXCEPT !.dispatched = <<cmd>>, !.modeAtDispatch = e0.appState]
      inChecklist == currentAppState = "checklist" /\ currentActiveChecklist # null
  IN IF Includes(cmd, "leer checklist") \/ Includes(cmd, "checklist")
     THEN selectChecklist(cmd, ref.checklists, e)
     ELSE IF /\ inChecklist
             /\ \/ Includes(cmd, "check")
                \/ Includes(cmd, "hecho")
                \/ Includes(cmd, "siguiente")
     THEN advanceChecklist(currentActiveChecklist, currentChecklistIndex, e)
     ELSE IF /\ inChecklist
             /\ (Includes(cmd, "reiniciar") \/ Includes(cmd, "empezar de nuevo"))
     THEN restartChecklist(currentActiveChecklist, e)
     ELSE IF \/ Includes(cmd, "plan de vuelo")
             \/ Includes(cmd, "punto")
             \/ Includes(cmd, "ruta")
             \/ Includes(cmd, "punto de ruta")
             \/ Includes(cmd, "punto ruta")
     THEN routeCommand(cmd, ref.routes, ActiveRoute(ref.routes, ref.activeRouteId), e)
     ELSE IF \/ Includes(cmd, ("aer" \o oacute \o "dromo"))
             \/ Includes(cmd, "aerodromo")
             \/ Includes(cmd, "pistas")
     THEN aerodromeCommand(cmd, ref.aerodromes, e)
     ELSE IF Includes(cmd, "opciones") \/ Includes(cmd, "ayuda")
     THEN helpCommand(e)
     ELSE IF \/ Includes(cmd, "cancelar")
             \/ Includes(cmd, "parar")
             \/ Includes(cmd, "copiloto parar")
             \/ Includes(cmd, "silencio")
     THEN cancelCommand(cmd, e)
     ELSE IF Includes(cmd, "repetir") \/ Includes(cmd, "repite")
     THEN repeatCommand(e)
     ELSE e

\* The guard testing for the other listening mode.
speakerGuardWrongMode(currentMode, currentlySpeaking) ==
  currentMode = "headphones" /\ currentlySpeaking

\* "Guard for speaker mode: don't process if copilot is speaking"
speakerGuard(currentMode, currentlySpeaking) ==
  currentMode = "speaker" /\ currentlySpeaking

\* The last if without its test of the mode.
dispatchesWholeAlways(currentAppState) == TRUE

\* The test of the last if of handleCommand: a text that was not dispatched
\* after a wake word is dispatched whole unless the mode is idle
dispatchesWhole(currentAppState) == currentAppState # "idle"

\* The acknowledgement test with the negation dropped.
wakeOnlyNegated(currentAppState, commandAfterWakeWord) ==
  currentAppState = "idle" /\ commandAfterWakeWord # ""

\* if (currentAppState === 'idle') { ... if (!commandAfterWakeWord) ... }: the
\* wake word alone, heard while idle, is acknowledged
wakeOnly(currentAppState, commandAfterWakeWord) ==
  currentAppState = "idle" /\ commandAfterWakeWord = ""

\* handleCommand(command), run against the snapshot ref = stateRef.current
handleCommand(command, ref, e) ==
  IF speakerGuard(ref.listeningMode, ref.isSpeaking)
  THEN [e EXCEPT !.dropped = TRUE]
  ELSE
    LET cmd  == Trim(ToLowerCase(command))
        e1   == addLog(e, command, "user")
        wake == Includes(cmd, "copiloto")
        commandAfterWakeWord ==
          IF wake THEN Trim(SplitSecond(cmd, "copiloto")) ELSE ""
        e2   == IF wake /\ ref.appState = "idle"
                THEN [e1 EXCEPT !.appState = "listening"]
                ELSE e1
    IN IF wake /\ wakeOnly(ref.appState, commandAfterWakeWord)
       THEN addLog(speak(e2, "Copiloto a la escucha"),
                   "Copiloto a la escucha", "system")
       ELSE IF wake /\ commandAfterWakeWord # ""
       THEN processActualCommand(commandAfterWakeWord, ref.appState,
                                 ref.activeChecklist, ref.checklistIndex, ref, e2)
       ELSE IF dispatchesWhole(ref.appState)
       THEN processActualCommand(cmd, ref.appState, ref.activeChecklist,
                                 ref.checklistIndex, ref, e2)
       ELSE e2

-----------------------------------------------------------------------------
(* State, events and user actions *)

\* The transcripts the recognition delivers, by the part of the interpreter
\* they exercise.
ChecklistTranscripts ==
  { "Copiloto leer checklist Prevuelo",
    "copiloto leer checklist vacia",
    "siguiente" }

WakeTranscripts ==
  { "copiloto",
    "Copiloto leer checklist Prevuelo",
    "siguiente",
    "copiloto copiloto cancelar" }

StopTranscripts ==
  { "Copiloto leer checklist Prevuelo",
    "siguiente",
    "copiloto parar",
    "silencio" }

CancelTranscripts ==
  { "Copiloto leer checklist Prevuelo",
    "siguiente",
    "copiloto cancelar" }

RestartTranscripts ==
  { "Copiloto leer checklist Prevuelo",
    "siguiente",
    "reiniciar",
    "copiloto empezar de nuevo" }

RejectTranscripts ==
  { "Copiloto leer checklist Prevuelo",
    "copiloto leer checklist frenos",
    "leer checklist frenos" }

OrdinalTranscripts ==
  { "Copiloto leer checklist Prevuelo",
    "copiloto punto 2",
    "punto de ruta uno",
    "copiloto punto tres",
    "copiloto cargar plan de vuelo sur" }

AerodromeTranscripts ==
  { "Copiloto leer checklist Prevuelo",
    "copiloto aerodromo ocana",
    "pistas de LEOC",
    ("copiloto aer" \o oacute \o "dromo casarrubios del monte"),
    ("copiloto datos del aer" \o oacute \o "dromo villanueva") }

PlanTranscripts ==
  { "Copiloto leer checklist Prevuelo",
    "copiloto cargar plan de vuelo sur",
    "copiloto activar ruta Norte",
    "seleccionar ruta oeste",
    "copiloto punto 1" }

RepeatTranscripts ==
  { "Copiloto leer checklist Prevuelo",
    "copiloto repetir",
    "repite",
    "copiloto" }

\* What the sessions hear when the recognition is followed
ChannelTranscripts == { "copiloto" }

\* What the pilot says while the routes are edited
RouteTranscripts ==
  { "copiloto cargar plan de vuelo sur" }

\* What the pilot says while the Session Log is followed
LogTranscripts ==
  { "Copiloto leer checklist Prevuelo",
    "siguiente" }

\* The command of the in-app guide, 'Cargar plan [Nombre]', next to the wording
\* with 'plan de vuelo'
GuideTranscripts ==
  { "Copiloto leer checklist Prevuelo",
    "copiloto cargar plan sur",
    "cargar plan sur",
    "copiloto cargar plan de vuelo sur" }

\* What the pilot says to hear the frequencies of an aerodrome
FrequencyTranscripts ==
  { "Copiloto leer checklist Prevuelo",
    "copiloto aerodromo leci" }

\* Commands that hold the words of more than one rule of the cascade
DispatchTranscripts ==
  { "Copiloto leer checklist Prevuelo",
    "siguiente punto",
    "copiloto ayuda pistas ruta",
    "ayuda pistas",
    "repetir ayuda",
    "parar de repetir",
    "repite" }

\* Commands that hold the words of no rule, next to a selection and an advance
UnmatchedTranscripts ==
  { "Copiloto leer checklist Prevuelo",
    "siguiente",
    "copiloto buenos dias",
    "gracias" }

\* Waypoint queries heard after startup
StartupTranscripts == { "copiloto punto 1", "punto 2" }

\* What the pilot says while the utterances start, end and fail
SpeechTranscripts ==
  { "Copiloto leer checklist Prevuelo",
    "siguiente" }

Transcripts ==
  ChecklistTranscripts \cup WakeTranscripts \cup StopTranscripts \cup CancelTranscripts
    \cup RestartTranscripts \cup RejectTranscripts
    \cup OrdinalTranscripts \cup AerodromeTranscripts
    \cup PlanTranscripts \cup RepeatTranscripts

\* The most checklists the repository holds.
MaxChecklists == 3

\* The session state as a handler run finds it.
Before ==
  [ appState        |-> appState,
    activeChecklist |-> activeChecklist,
    checklistIndex  |-> checklistIndex,
    activeRouteId   |-> activeRouteId,
    logs            |-> logs,
    isSpeaking      |-> isSpeaking,
    listeningMode   |-> listeningMode,
    lastSpoken      |-> lastSpoken,
    synth           |-> synth ]

\* The effects of a run become the new state when React commits them.
Apply(e) ==
  /\ appState' = e.appState
  /\ activeChecklist' = e.activeChecklist
  /\ checklistIndex' = e.checklistIndex
  /\ activeRouteId' = e.activeRouteId
  /\ logs' = e.logs
  /\ isSpeaking' = e.isSpeaking
  /\ lastSpoken' = e.lastSpoken
  /\ synth' = e.synth

\* What a run did, next to the state it found.
Observe(op, transcript, e) ==
  last' = [ op             |-> op,
            transcript     |-> transcript,
            before         |-> Before,
            said           |-> e.said,
            stopped        |-> e.stopped,
            dropped        |-> e.dropped,
            dispatched     |-> e.dispatched,
            modeAtDispatch |-> e.modeAtDispatch,
            selected       |-> e.selected,
            threw          |-> e.threw ]

\* The observation after a step that is no run of the interpreter.
NoRun ==
  [ op |-> "none", transcript |-> "", before |-> <<>>, said |-> <<>>,
    stopped |-> FALSE, dropped |-> FALSE, dispatched |-> <<>>,
    modeAtDispatch |-> "idle", selected |-> <<>>, threw |-> FALSE ]

\* The state of the last commit, as the effect of lines 213-216 stores it in
\* stateRef.current.
Committed ==
  [ appState             |-> appState,
    activeChecklist      |-> activeChecklist,
    checklistIndex       |-> checklistIndex,
    checklists           |-> checklists,
    routes               |-> routes,
    activeRouteId        |-> activeRouteId,
    aerodromes           |-> aerodromes,
    listeningMode        |-> listeningMode,
    isSpeaking           |-> isSpeaking,
    isRecognitionEnabled |-> isRecognitionEnabled,
    postponed            |-> FALSE ]

\* The effect that follows every commit: stateRef.current is the new state.
\* Where stateRef.postponed is set the effect is followed as a step of its
\* own (refreshEffect) and a handler leaves stateRef.current as it found it.
Refresh ==
  stateRef' = IF stateRef.postponed THEN stateRef ELSE Committed'

\* The count of successive dispatched 'siguiente' after a run with effects e:
\* a selection starts it at 0, a dispatched 'siguiente' adds one until the
\* checklist is completed, a dropped transcript is not counted, any other
\* transcript ends it.
RunAfter(e) ==
  IF e.dropped THEN run
  ELSE IF e.selected # <<>> THEN << [cl |-> e.selected[1], k |-> 0] >>
  ELSE IF /\ run # <<>>
          /\ e.dispatched = << "siguiente" >>
          /\ run[1].k < Len(run[1].cl.items)
  THEN << [run[1] EXCEPT !.k = @ + 1] >>
  ELSE <<>>

\* The most recognition sessions, pending synthesis-completion timers and
\* undelivered end events of cancelled utterances that are followed.
MaxSessions == 2

MaxSynthTimers == 1

MaxOrphans == 1

\* No session was started by the latest step.
NoStart == [how |-> "none", speaking |-> FALSE, mode |-> "speaker", enabled |-> TRUE]

\* The recognition is left out: the transcripts arrive from outside.
Untracked ==
  [ tracked |-> FALSE, ref |-> 0, sessions |-> <<>>, synthTimers |-> 0,
    orphans |-> 0, started |-> NoStart, micError |-> "", retried |-> FALSE ]

\* new SpeechRecognition() after recognition.start(): the session runs, its
\* onend handler is attached, no self-restart timer is pending and its start
\* event is still to be delivered (fresh).
NewSession == [phase |-> "running", onend |-> TRUE, timer |-> FALSE, fresh |-> TRUE]

\* After the mount: the effect of isRecognitionEnabled has started the first
\* session and recognitionRef.current (ref, a position in sessions; 0 is null)
\* holds it.
Mounted ==
  [ tracked |-> TRUE, ref |-> 1, sessions |-> << NewSession >>, synthTimers |-> 0,
    orphans |-> 0,
    started |-> [how |-> "effect", speaking |-> FALSE, mode |-> "speaker",
                 enabled |-> TRUE],
    micError |-> "", retried |-> FALSE ]

\* A session nothing refers to any more: it has ended, no timer of it is
\* pending and recognitionRef.current is another one.
Dead(r, i) ==
  /\ r.sessions[i].phase = "ended"
  /\ ~r.sessions[i].timer
  /\ r.ref # i

Rank(S, i) == Cardinality({j \in S : j <= i})

\* The sessions that can still act, in their order, and the reference moved
\* with them.
Collect(r) ==
  LET S == {i \in 1..Len(r.sessions) : ~Dead(r, i)}
  IN [r EXCEPT !.sessions = [k \in 1..Cardinality(S) |->
                               r.sessions[CHOOSE i \in S : Rank(S, i) = k]],
               !.ref = IF r.ref = 0 THEN 0 ELSE Rank(S, r.ref)]

\* recognition.stop() on session i: a running session stops, any other one is
\* not changed.  i = 0 is the null reference.
stop(r, i) ==
  IF i # 0 /\ r.sessions[i].phase = "running"
  THEN [r EXCEPT !.sessions[i].phase = "stopping"]
  ELSE r

\* startRecognition: the session of recognitionRef.current is stopped, a new
\* one is created and started, and the reference is set to it.
startRecognition(r, how, s) ==
  LET r1 == stop(r, r.ref)
  IN Collect([r1 EXCEPT !.sessions = Append(@, NewSession),
                        !.ref = Len(r1.sessions) + 1,
                        !.started = [how |-> how, speaking |-> s.isSpeaking,
                                     mode |-> s.listeningMode,
                                     enabled |-> s.isRecognitionEnabled],
                        !.retried = @ \/ (r.micError # "" /\ how \in {"effect", "retry"})])

\* The cleanup of the effect of isRecognitionEnabled: the session of the
\* reference loses its onend handler and is stopped.
effectCleanup(r) ==
  IF r.ref = 0 THEN r
  ELSE stop([r EXCEPT !.sessions[r.ref].onend = FALSE], r.ref)

\* The effect of isRecognitionEnabled turned off, without the teardown: only
\* the reference is cleared.
stopRecognitionKeepsSession(r) == Collect([r EXCEPT !.ref = 0])

\* The effect of isRecognitionEnabled turned off, after its cleanup: the
\* session of the reference loses its onend handler, is stopped, and the
\* reference is cleared.
stopRecognition(r) == Collect([effectCleanup(r) EXCEPT !.ref = 0])

\* synthesisRef.current.cancel() on an utterance that is being spoken: the
\* browser may deliver its end event later.
CancelledSpeaking(e) ==
  /\ synth # <<>>
  /\ synth[1].phase = "speaking"
  /\ (e.stopped \/ e.said # <<>>)

Orphaned(r, e) ==
  IF CancelledSpeaking(e) /\ r.orphans < MaxOrphans
  THEN [r EXCEPT !.orphans = @ + 1]
  ELSE r

Quiet(r) == [r EXCEPT !.started = NoStart]

\* The recognition after a step with effects e that starts and stops no session.
RecAfter(e) ==
  rec' = IF rec.tracked THEN Quiet(Orphaned(rec, e)) ELSE rec

\* recognition.onend of a session, lines 477-493.
recognitionOnendHandler(r, i, s) ==
  IF ~r.sessions[i].onend \/ ~s.isRecognitionEnabled THEN r
  ELSE IF s.listeningMode = "headphones" \/ ~s.isSpeaking
  THEN [r EXCEPT !.sessions[i].timer = TRUE]
  ELSE [r EXCEPT !.ref = 0]

\* utterance.onend, lines 235-242: the synthesis-completion timer is set.
utteranceOnendTimer(r, s) ==
  IF s.listeningMode = "speaker" /\ s.isRecognitionEnabled
  THEN [r EXCEPT !.synthTimers = @ + 1]
  ELSE r

\* The timer of utterance.onend is followed: a pending one is not passed.
TimerFits(r, s) ==
  (s.listeningMode = "speaker" /\ s.isRecognitionEnabled) => r.synthTimers < MaxSynthTimers

\* A session is delivering results.
Audible(r) == \E i \in 1..Len(r.sessions) : r.sessions[i].phase \in {"running", "stopping"}

\* The state after construction when the state initialisers gave the
\* repository cls, rs, persistedAerodromes and the active id savedId;
\* postponed tells whether the effect that stores the state in stateRef is
\* followed as a step of its own
InitRef(cls, rs, persistedAerodromes, savedId, observed, postponed) ==
  /\ checklists = cls
  /\ routes = rs
  /\ aerodromes = persistedAerodromes
  /\ activeRouteId = savedId
  /\ appState = "idle"
  /\ logs = <<>>
  /\ activeChecklist = null
  /\ checklistIndex = -1
  /\ isSpeaking = FALSE
  /\ isRecognitionEnabled = TRUE
  /\ listeningMode = "speaker"
  /\ lastSpoken = ""
  /\ synth = <<>>
  /\ stateRef = [ appState             |-> "idle",
                  activeChecklist      |-> null,
                  checklistIndex       |-> -1,
                  checklists           |-> cls,
                  routes               |-> rs,
                  activeRouteId        |-> savedId,
                  aerodromes           |-> persistedAerodromes,
                  listeningMode        |-> "speaker",
                  isSpeaking           |-> FALSE,
                  isRecognitionEnabled |-> TRUE,
                  postponed            |-> postponed ]
  /\ last = observed
  /\ run = <<>>

\* The state after construction with the effect of lines 213-216 following
\* every commit at once
InitFrom(cls, rs, persistedAerodromes, savedId, observed) ==
  InitRef(cls, rs, persistedAerodromes, savedId, observed, FALSE)

\* The state after construction from the persisted checklists and routes of
\* the model
InitOn(persistedAerodromes, savedId) ==
  InitFrom(PersistedChecklists, PersistedRoutes, persistedAerodromes, savedId, NoRun)

\* The state after construction with the persisted blobs of the model.
InitState == InitOn(PersistedAerodromes, "1")

\* The frequencies typed into the editor of aerodromes
FrequencyInputs == { "123.500", "118.0", "122,8", "123.5 MHz" }

\* The state after construction when the persisted aerodrome carries a
\* frequency of FrequencyInputs.
InitFrequency ==
  /\ \E f \in FrequencyInputs :
       InitOn(<< [PersistedAerodromes[1] EXCEPT !.frequencies = << f >>] >>, "1")
  /\ rec = Untracked

\* The ids that localStorage may hold as 'copiloto_active_route_id': the id of
\* a persisted route, or one that no route carries
SavedRouteIds == { "1", "2", "9" }

\* The state after construction for every saved id of the active route
InitRoutes ==
  /\ \E savedId \in SavedRouteIds : InitOn(PersistedAerodromes, savedId)
  /\ rec = Untracked

\* A blob of localStorage as getItem gives it: null, a text that JSON.parse
\* rejects, or the JSON text of a value
Absent == [kind |-> "absent", value |-> <<>>]

Malformed == [kind |-> "malformed", value |-> <<>>]

Json(v) == [kind |-> "json", value |-> v]

\* What a state initialiser gives: a value, or the exception that left it
Returned(v) == [threw |-> FALSE, value |-> v]

Thrown == [threw |-> TRUE, value |-> <<>>]

\* A route object of a blob or of the constants: puntosRuta and waypoints are
\* the property when it is there, null when the object has no such property
RouteObject(r, shape) ==
  [ id |-> r.id, name |-> r.name,
    puntosRuta |-> IF shape = "puntosRuta" THEN << r.puntosRuta >> ELSE null,
    waypoints  |-> IF shape = "waypoints" THEN << r.puntosRuta >> ELSE null ]

\* INITIAL_FLIGHT_PLANS: one route, its points under 'waypoints'
INITIAL_FLIGHT_PLANS == << RouteObject(PersistedRoutes[1], "waypoints") >>

\* CHECKLISTS, imported as INITIAL_CHECKLISTS
INITIAL_CHECKLISTS == PersistedChecklists

INITIAL_AERODROMES == PersistedAerodromes

\* { ...r, puntosRuta: r.puntosRuta || r.waypoints || [] }: an array, empty or
\* not, is truthy
migrateRoute(r) ==
  [r EXCEPT !.puntosRuta = IF r.puntosRuta # null THEN r.puntosRuta
                           ELSE IF r.waypoints # null THEN r.waypoints
                           ELSE << <<>> >>]

\* The route object as the handlers hold it: every read of the interpreter is
\* (route.puntosRuta || []), so a route without the property reads as a route
\* with no points; its array is marked "undefined".
heldRoute(r) ==
  [ id |-> r.id, name |-> r.name,
    array |-> IF r.puntosRuta = null THEN "undefined" ELSE r.id,
    puntosRuta |-> IF r.puntosRuta = null THEN <<>> ELSE r.puntosRuta[1] ]

\* useState initialiser of checklists, lines 119-122
initChecklists(blob) ==
  IF blob.kind = "absent" THEN Returned(INITIAL_CHECKLISTS)
  ELSE IF blob.kind = "malformed" THEN Thrown      \* JSON.parse outside a try
  ELSE Returned(blob.value)

\* useState initialiser of routes, lines 123-136
initRoutes(blob) ==
  IF blob.kind = "absent"
  THEN Returned([i \in 1..Len(INITIAL_FLIGHT_PLANS) |-> heldRoute(INITIAL_FLIGHT_PLANS[i])])
  ELSE IF blob.kind = "malformed"
  THEN Returned([i \in 1..Len(INITIAL_FLIGHT_PLANS) |-> heldRoute(INITIAL_FLIGHT_PLANS[i])])
  ELSE Returned([i \in 1..Len(blob.value) |-> heldRoute(migrateRoute(blob.value[i]))])

\* useState initialiser of aerodromes, lines 137-158; the aerodromes of the
\* blobs are in the present shape, which the migration leaves as it is
initAerodromes(blob) ==
  IF blob.kind = "absent" THEN Returned(INITIAL_AERODROMES)
  ELSE IF blob.kind = "malformed" THEN Returned(INITIAL_AERODROMES)
  ELSE Returned(blob.value)

\* useState initialiser of activeRouteId, lines 160-166; savedId is null or
\* the text stored
initActiveRouteId(savedId, routesBlob) ==
  IF savedId # null /\ savedId[1] # "" THEN Returned(savedId[1])
  ELSE IF routesBlob.kind = "absent" THEN Returned(INITIAL_FLIGHT_PLANS[1].id)
  ELSE IF routesBlob.kind = "malformed" THEN Thrown   \* JSON.parse outside a try
  ELSE IF Len(routesBlob.value) > 0 THEN Returned(routesBlob.value[1].id)
  ELSE Returned("")

\* The blobs that localStorage holds at startup
ChecklistBlobs == { Absent, Malformed, Json(SubSeq(PersistedChecklists, 1, 1)) }

RouteBlobs ==
  { Absent, Malformed,
    Json([i \in 1..Len(PersistedRoutes) |-> RouteObject(PersistedRoutes[i], "puntosRuta")]),
    Json([i \in 1..Len(PersistedRoutes) |-> RouteObject(PersistedRoutes[i], "waypoints")]) }

AerodromeBlobs == { Absent, Malformed, Json(SubSeq(PersistedAerodromes, 1, 1)) }

SavedIdBlobs == { null, << "2" >>, << "%%" >> }

\* The state after construction for every content of the four blobs; when an
\* initialiser throws, the render of App throws and nothing is mounted.
InitStartup ==
  /\ \E cb \in ChecklistBlobs, rb \in RouteBlobs, ab \in AerodromeBlobs, sb \in SavedIdBlobs :
       LET c == initChecklists(cb)
           r == initRoutes(rb)
           a == initAerodromes(ab)
           p == initActiveRouteId(sb, rb)
           threw == c.threw \/ r.threw \/ a.threw \/ p.threw
           blobs == [checklists |-> cb, routes |-> rb, aerodromes |-> ab, savedId |-> sb]
       IN InitFrom(IF threw THEN <<>> ELSE c.value, IF threw THEN <<>> ELSE r.value, IF threw THEN <<>> ELSE a.value, IF threw THEN "" ELSE p.value, [NoRun EXCEPT !.op = "startup", !.threw = threw, !.before = blobs])
  /\ rec = Untracked

\* The render of App threw in a state initialiser.
Crashed == last.op = "startup" /\ last.threw

\* The interpreter alone: the transcripts arrive from outside.
Init == InitState /\ rec = Untracked

\* The interpreter with the recognition sessions that feed it.
InitChannel == InitState /\ rec = Mounted

\* recognition.onresult: the transcript goes to handleCommand
onresult(transcript) ==
  /\ Len(logs) < MaxLog
  /\ rec.tracked => Audible(rec)
  /\ LET e == handleCommand(transcript, stateRef, Effects)
     IN /\ Apply(e)
        /\ RecAfter(e)
        /\ Observe("onresult", transcript, e)
        /\ run' = RunAfter(e)
  /\ UNCHANGED <<checklists, routes, aerodromes, isRecognitionEnabled, listeningMode>>
  /\ Refresh

\* toggleRecognition: the microphone button
toggleRecognition ==
  /\ Len(logs) < MaxLog
  /\ (rec.tracked /\ ~isRecognitionEnabled) => Len(rec.sessions) < MaxSessions
  /\ LET newState == ~isRecognitionEnabled
         msg == IF newState THEN "Sistema de escucha activado"
                ELSE "Sistema de escucha desactivado"
         e1  == addLog(speak(Effects, msg), msg, "system")
         e   == IF newState THEN e1 ELSE [e1 EXCEPT !.appState = "idle"]
     IN /\ isRecognitionEnabled' = newState
        /\ Apply(e)
        /\ last' = NoRun
        /\ rec' = IF ~rec.tracked THEN rec
                  ELSE IF newState
                  THEN startRecognition(effectCleanup(Orphaned(rec, e)), "effect", [stateRef EXCEPT !.isRecognitionEnabled = TRUE])
                  ELSE stopRecognition(Quiet(Orphaned(rec, e)))
  /\ run' = <<>>
  /\ UNCHANGED <<checklists, routes, aerodromes, listeningMode>>
  /\ Refresh

\* The X button of the checklist view, shown while appState is 'checklist'
\* and activeChecklist is set
closeChecklistView ==
  /\ appState = "checklist" /\ activeChecklist # null
  /\ LET e == [Effects EXCEPT !.appState = "idle", !.activeChecklist = null]
     IN Apply(e) /\ last' = NoRun /\ RecAfter(e)
  /\ run' = <<>>
  /\ UNCHANGED <<checklists, routes, aerodromes, isRecognitionEnabled, listeningMode>>
  /\ Refresh

\* The listening mode button
toggleListeningMode ==
  /\ LET newMode == IF listeningMode = "headphones" THEN "speaker" ELSE "headphones"
         e == speak(Effects, "Modo " \o (IF newMode = "headphones" THEN "cascos"
                                          ELSE "altavoz") \o " activado")
     IN /\ listeningMode' = newMode
        /\ Apply(e)
        /\ last' = NoRun
        /\ RecAfter(e)
  /\ UNCHANGED <<checklists, routes, aerodromes, isRecognitionEnabled, run>>
  /\ Refresh

\* The stop button, shown while isSpeaking
stopButton ==
  /\ isSpeaking
  /\ LET e == stopSpeaking(Effects)
     IN Apply(e) /\ last' = NoRun /\ RecAfter(e)
  /\ UNCHANGED <<checklists, routes, aerodromes, isRecognitionEnabled,
                 listeningMode, run>>
  /\ Refresh

\* utterance.onstart of the utterance in flight
utteranceOnstart ==
  /\ synth # <<>> /\ synth[1].phase = "pending"
  /\ LET e == [Effects EXCEPT !.isSpeaking = TRUE,
                              !.synth = << [synth[1] EXCEPT !.phase = "speaking"] >>]
     IN Apply(e) /\ last' = NoRun
  /\ rec' = IF ~rec.tracked THEN rec
            ELSE IF stateRef.listeningMode = "speaker" THEN Quiet(stop(rec, rec.ref))
            ELSE Quiet(rec)
  /\ UNCHANGED <<checklists, routes, aerodromes, isRecognitionEnabled,
                 listeningMode, run>>
  /\ Refresh

\* utterance.onend of the utterance in flight
utteranceOnend ==
  /\ synth # <<>> /\ synth[1].phase = "speaking"
  /\ rec.tracked => TimerFits(rec, stateRef)
  /\ LET e == [Effects EXCEPT !.isSpeaking = FALSE, !.synth = <<>>]
     IN Apply(e) /\ last' = NoRun
  /\ rec' = IF rec.tracked THEN Quiet(utteranceOnendTimer(rec, stateRef)) ELSE rec
  /\ UNCHANGED <<checklists, routes, aerodromes, isRecognitionEnabled,
                 listeningMode, run>>
  /\ Refresh

\* The error event of the utterance in flight (synthesis failed, audio busy,
\* interrupted): the utterance leaves the queue and its end event is not
\* delivered; speak attaches no onerror handler, so no state changes
utteranceOnerror ==
  /\ synth # <<>>
  /\ LET e == [Effects EXCEPT !.synth = <<>>]
     IN Apply(e) /\ last' = [NoRun EXCEPT !.op = "utteranceOnerror"] /\ RecAfter(e)
  /\ UNCHANGED <<checklists, routes, aerodromes, isRecognitionEnabled,
                 listeningMode, run>>
  /\ Refresh

\* saveChecklist(checklist) while isAddingChecklist: the new checklist gets a
\* fresh id and the last place of the mapping
saveChecklist(checklist) ==
  /\ Len(checklists) < MaxChecklists
  /\ checklists' = Append(checklists,
                          [checklist EXCEPT !.id = "n" \o ToString(Len(checklists)),
                                            !.array = "n" \o ToString(Len(checklists))])
  /\ Apply(Effects) /\ last' = NoRun /\ RecAfter(Effects)
  /\ UNCHANGED <<routes, aerodromes, isRecognitionEnabled, listeningMode, run>>
  /\ Refresh

\* The most items of a checklist that the CSV import builds.
MaxItems == 3

\* The parsed CSV files of checklists that are imported: a row for a checklist
\* of the repository, a row for a new one, a row without an item
ChecklistImports ==
  { << [name |-> "Prevuelo", item |-> "Calzos fuera"],
       [name |-> "En ruta", item |-> "Rumbo comprobado"],
       [name |-> "Vuelo", item |-> ""] >> }

\* name.toLowerCase().replace(/\s+/g, '_'), line 629
RECURSIVE Underscored(_)
Underscored(s) ==
  IF s = "" THEN ""
  ELSE IF Head(s) = " " THEN "_" \o Underscored(TrimStart(s))
  ELSE SubSeq(s, 1, 1) \o Underscored(Tail(s))

\* The place of the checklist with this id in the mapping, 0 when absent
ChecklistAt(cls, id) ==
  IF \E k \in 1..Len(cls) : cls[k].id = id
  THEN CHOOSE k \in 1..Len(cls) : cls[k].id = id
  ELSE 0

\* newChecklists[id].items.push(...), line 633: the array of the object is
\* changed in place, so the active checklist shows the item when it is that
\* object. st holds the mapping (cls) and the active checklist (held).
pushItem(st, k, row) ==
  LET item == [id |-> "r" \o ToString(Len(st.cls[k].items) + 1), text |-> row.item]
  IN [ cls  |-> [st.cls EXCEPT ![k].items = Append(@, item)],
       held |-> IF st.held # null /\ st.held[1].array = st.cls[k].array
                THEN << [st.held[1] EXCEPT !.items = Append(@, item)] >>
                ELSE st.held ]

\* One row of the CSV file, lines 624-633: a row without a name or an item is
\* skipped, a checklist that the mapping lacks is created with a new array
importChecklistRow(st, row) ==
  LET id == Underscored(ToLowerCase(row.name))
      k == ChecklistAt(st.cls, id)
      array == IF st.held # null /\ st.held[1].array = id THEN id \o "+" ELSE id
  IN IF row.name = "" \/ row.item = "" THEN st
     ELSE IF k # 0 THEN pushItem(st, k, row)
     ELSE pushItem([st EXCEPT !.cls = Append(@, [id |-> id, name |-> row.name, array |-> array, items |-> <<>>])], Len(st.cls) + 1, row)

RECURSIVE importChecklists(_, _)
importChecklists(st, data) ==
  IF data = <<>> THEN st
  ELSE importChecklists(importChecklistRow(st, Head(data)), Tail(data))

\* A step of an editor of checklists: the new mapping cls and the effects e on
\* the session, observed as op
ChecklistStep(op, e, cls) ==
  /\ Len(cls) <= MaxChecklists
  /\ \A k \in 1..Len(cls) : Len(cls[k].items) <= MaxItems
  /\ checklists' = cls
  /\ Apply(e) /\ last' = [NoRun EXCEPT !.op = op, !.before = Before] /\ RecAfter(e)
  /\ UNCHANGED <<routes, aerodromes, isRecognitionEnabled, listeningMode, run>>
  /\ Refresh

\* handleImportCSV('checklists', data), lines 622-635 and 693
handleImportChecklists(data) ==
  LET st == importChecklists([cls |-> checklists, held |-> activeChecklist], data)
  IN /\ Len(logs) < MaxLog
     /\ ChecklistStep("handleImportCSV", addLog([Effects EXCEPT !.activeChecklist = st.held], "Importaci" \o oacute \o "n de checklists completada", "system"), st.cls)

\* deleteChecklist(id), lines 613-619: the entry leaves the mapping
deleteChecklist(id) ==
  /\ ChecklistAt(checklists, id) # 0
  /\ ChecklistStep("deleteChecklist", Effects, SelectSeq(checklists, LAMBDA c : c.id # id))

\* The texts typed into an item of the editor of checklists
EditedItemTexts == { "Calzos puestos" }

\* The pencil of checklist k (line 808) and a text typed into its item idx
\* (lines 1033-1037): newItems[idx].text = ... changes the item of the
\* checklist itself, and of the active checklist when it is that object
typeItemText(k, idx, text) ==
  /\ k \in 1..Len(checklists)
  /\ idx \in 1..Len(checklists[k].items)
  /\ checklists[k].items[idx].text # text
  /\ ChecklistStep("typeItemText",
                   [Effects EXCEPT !.activeChecklist =
                      IF activeChecklist # null /\ activeChecklist[1].array = checklists[k].array
                      THEN << [activeChecklist[1] EXCEPT !.items[idx].text = text] >>
                      ELSE activeChecklist],
                   [checklists EXCEPT ![k].items[idx].text = text])

\* The names typed into the editor of routes
EditedRouteNames == { "Oeste" }

\* The most routes, and waypoints of a route, that the editors and the CSV
\* import build, and the longest name of a route that is duplicated.
MaxRoutes == 2

MaxName == 3

MaxWaypoints == 2

\* Math.random().toString(36).substr(2, 9) for a route: an identifier that no
\* route and no waypoint array of rs carries.
FreshRouteId(rs) ==
  LET used == {rs[i].id : i \in 1..Len(rs)} \cup {rs[i].array : i \in 1..Len(rs)}
      k == CHOOSE n \in 1..(2 * Len(rs) + 1) :
             /\ ("r" \o ToString(n)) \notin used
             /\ \A m \in 1..(n - 1) : ("r" \o ToString(m)) \in used
  IN "r" \o ToString(k)

\* The row of a CSV file of routes, by its Spanish and its English headers
RouteRow(plan, punto, rumbo) ==
  [ nombre_plan |-> plan, route_name |-> "", nombre_punto |-> punto, name |-> "",
    lugar |-> "", rumbo |-> rumbo, heading |-> "", altitud |-> "1800 ft", altitude |-> "",
    techo |-> "", ceiling |-> "3000 ft", notas |-> "", notes |-> "" ]

\* The parsed CSV files of routes that are imported
RouteImports ==
  { << RouteRow("Sur", "Embalse", "200"), RouteRow("", "Perdido", "000") >> }

\* The waypoint that handleImportCSV builds from a row, lines 648-656
importedPunto(row, n) ==
  [ id       |-> "i" \o ToString(n),
    name     |-> OrElse(row.nombre_punto, row.name),
    lugar    |-> row.lugar,
    heading  |-> OrElse(row.rumbo, row.heading),
    altitude |-> OrElse(row.altitud, row.altitude),
    ceiling  |-> OrElse(row.techo, row.ceiling),
    notes    |-> OrElse(row.notas, row.notes) ]

\* newRoutes.find(r => r.name === routeName): the first place, 0 for none
findRouteByName(rs, routeName) ==
  LET hit == {i \in 1..Len(rs) : rs[i].name = routeName}
  IN IF hit = {} THEN 0 ELSE CHOOSE i \in hit : \A j \in hit : i <= j

\* route.puntosRuta.push(wp): the array is changed in place, so every route
\* that holds the same array (a route and its duplicates) shows the waypoint
pushPunto(rs, i, row) ==
  [k \in 1..Len(rs) |->
     IF rs[k].array = rs[i].array
     THEN [rs[k] EXCEPT !.puntosRuta = Append(@, importedPunto(row, Len(@) + 1))]
     ELSE rs[k]]

\* The body of data.forEach for one row of routes, lines 638-657
importRouteRow(rs, row) ==
  LET routeName == OrElse(row.nombre_plan, row.route_name)
      found == findRouteByName(rs, routeName)
      id == FreshRouteId(rs)
  IN IF routeName = "" THEN rs
     ELSE IF found # 0 THEN pushPunto(rs, found, row)
     ELSE pushPunto(Append(rs, [id |-> id, name |-> routeName, array |-> id, puntosRuta |-> <<>>]), Len(rs) + 1, row)

RECURSIVE importRoutes(_, _)
importRoutes(rs, data) ==
  IF data = <<>> THEN rs
  ELSE importRoutes(importRouteRow(rs, Head(data)), Tail(data))

\* The routes stay within the bounds that are followed.
RoutesFit(rs) ==
  /\ Len(rs) <= MaxRoutes
  /\ \A i \in 1..Len(rs) : Len(rs[i].puntosRuta) <= MaxWaypoints

\* What a step of an editor of routes did: of a delete, the id of the deleted
\* route and the active route pointer it found; of the others, nothing.
ObserveRoute(op, id) ==
  last' = IF op = "deleteRoute"
          THEN [NoRun EXCEPT !.op = op, !.transcript = id,
                             !.before = [activeRouteId |-> activeRouteId]]
          ELSE NoRun

\* A step of an editor of routes: effects e on the session, the new list rs,
\* observed as op on route id
RouteStep(op, id, e, rs) ==
  /\ RoutesFit(rs)
  /\ routes' = rs
  /\ Apply(e) /\ ObserveRoute(op, id) /\ RecAfter(e)
  /\ UNCHANGED <<checklists, aerodromes, isRecognitionEnabled, listeningMode, run>>
  /\ Refresh

\* A click on a route of the list, line 830
selectRoute(i) ==
  /\ i \in 1..Len(routes)
  /\ RouteStep("selectRoute", routes[i].id, [Effects EXCEPT !.activeRouteId = routes[i].id], routes)

\* saveRoute while isAddingRoute: the editor was opened with the '+' button
\* on {id: '', name: '', puntosRuta: []} and holds the name typed in
saveRouteNew(name) ==
  LET id == FreshRouteId(routes)
  IN RouteStep("saveRoute", id, [Effects EXCEPT !.activeRouteId = id], Append(routes, [id |-> id, name |-> name, array |-> id, puntosRuta |-> <<>>]))

\* saveRoute while editing route i: the editor holds the route with a new name
saveRouteEdit(i, name) ==
  /\ i \in 1..Len(routes)
  /\ RouteStep("saveRoute", routes[i].id, Effects, [k \in 1..Len(routes) |-> IF routes[k].id = routes[i].id THEN [routes[i] EXCEPT !.name = name] ELSE routes[k]])

\* The 'Duplicar' button of route i, lines 839-844
duplicateRoute(i) ==
  /\ i \in 1..Len(routes)
  /\ Len(routes[i].name) <= MaxName
  /\ LET id == FreshRouteId(routes)
     IN RouteStep("duplicateRoute", id, [Effects EXCEPT !.activeRouteId = id], Append(routes, [routes[i] EXCEPT !.id = id, !.name = @ \o " (Copia)"]))

\* routes.filter(r => r.id !== id)
withoutRoute(rs, id) == SelectSeq(rs, LAMBDA r : r.id # id)

\* The delete without the move of the active id to the first route left.
deleteRouteKeepsActive(i) ==
  /\ i \in 1..Len(routes)
  /\ Len(routes) > 1
  /\ RouteStep("deleteRoute", routes[i].id, Effects, withoutRoute(routes, routes[i].id))

\* deleteRoute(id) for the route at place i, lines 597-606
deleteRoute(i) ==
  /\ i \in 1..Len(routes)
  /\ Len(routes) > 1
  /\ LET id == routes[i].id
         filtered == withoutRoute(routes, id)
     IN RouteStep("deleteRoute", id, IF activeRouteId = id THEN [Effects EXCEPT !.activeRouteId = filtered[1].id] ELSE Effects, filtered)

\* handleImportCSV('routes', data), lines 636-658 and 693
handleImportCSV(data) ==
  /\ Len(logs) < MaxLog
  /\ RouteStep("handleImportCSV", "", addLog(Effects, "Importaci" \o oacute \o "n de routes completada", "system"), importRoutes(routes, data))

\* A step of the recognition or of a timer: the React state is as it was.
NoCommit ==
  /\ Apply(Effects) /\ last' = NoRun
  /\ UNCHANGED <<checklists, routes, aerodromes, isRecognitionEnabled, listeningMode, run>>
  /\ Refresh

\* recognition.onend of session i: the session has ended, by stop() or by the
\* browser, and its handler runs if it is still attached
recognitionOnend(i) ==
  /\ rec.tracked
  /\ i \in 1..Len(rec.sessions)
  /\ rec.sessions[i].phase \in {"running", "stopping", "failed"}
  /\ rec' = Quiet(Collect(recognitionOnendHandler([rec EXCEPT !.sessions[i].phase = "ended"], i, stateRef)))
  /\ NoCommit

\* The 300 ms timer of recognition.onend of session i fires
selfRestartTimer(i) ==
  /\ rec.tracked
  /\ i \in 1..Len(rec.sessions)
  /\ rec.sessions[i].timer
  /\ rec' = LET r == [rec EXCEPT !.sessions[i].timer = FALSE]
            IN IF stateRef.isRecognitionEnabled /\ r.sessions[i].phase = "ended"
               THEN [r EXCEPT !.sessions[i].phase = "running",
                              !.sessions[i].fresh = TRUE,
                              !.started = [how |-> "self",
                                           speaking |-> stateRef.isSpeaking,
                                           mode |-> stateRef.listeningMode,
                                           enabled |-> stateRef.isRecognitionEnabled]]
               ELSE Collect(Quiet(r))
  /\ NoCommit

\* The 100 ms timer of utterance.onend fires
synthTimer ==
  /\ rec.tracked
  /\ rec.synthTimers > 0
  /\ LET r == [rec EXCEPT !.synthTimers = @ - 1]
         starts == stateRef.isRecognitionEnabled /\ rec.ref = 0
     IN /\ starts => Len(rec.sessions) < MaxSessions
        /\ rec' = IF starts THEN startRecognition(r, "synth", stateRef) ELSE Quiet(r)
  /\ NoCommit

\* utterance.onend of an utterance that cancel() cut while it was spoken
orphanOnend ==
  /\ rec.tracked
  /\ rec.orphans > 0
  /\ TimerFits(rec, stateRef)
  /\ Apply([Effects EXCEPT !.isSpeaking = FALSE]) /\ last' = NoRun
  /\ rec' = Quiet(utteranceOnendTimer([rec EXCEPT !.orphans = @ - 1], stateRef))
  /\ UNCHANGED <<checklists, routes, aerodromes, isRecognitionEnabled, listeningMode, run>>
  /\ Refresh

\* The texts of recognition.onerror, lines 472-476
micErrorText(error) ==
  IF error = "not-allowed" THEN "Permiso denegado"
  ELSE IF error = "network" THEN "Error de red"
  ELSE "Error: " \o error

\* The errors that the recognition reports
RecognitionErrors == { "not-allowed", "network", "no-speech" }

\* recognition.onerror of session i: the status is set; the session has
\* failed and the browser will deliver its end event
recognitionOnerror(i, error) ==
  /\ rec.tracked
  /\ i \in 1..Len(rec.sessions)
  /\ rec.sessions[i].phase = "running"
  /\ rec' = Quiet([rec EXCEPT !.sessions[i].phase = "failed",
                              !.sessions[i].fresh = FALSE,
                              !.micError = micErrorText(error),
                              !.retried = FALSE])
  /\ NoCommit

\* recognition.onstart of session i, line 467: the status is cleared
recognitionOnstart(i) ==
  /\ rec.tracked
  /\ i \in 1..Len(rec.sessions)
  /\ rec.sessions[i].phase = "running"
  /\ rec.sessions[i].fresh
  /\ rec' = Quiet([rec EXCEPT !.sessions[i].fresh = FALSE,
                              !.micError = "",
                              !.retried = FALSE])
  /\ NoCommit

\* The 'Reintentar' button, shown while micError is set: startRecognition
retryButton ==
  /\ rec.tracked
  /\ rec.micError # ""
  /\ Len(rec.sessions) < MaxSessions
  /\ rec' = startRecognition(rec, "retry", stateRef)
  /\ NoCommit

\* The steps of the system when the recognition delivers transcripts of T.
NextOver(T) ==
  \/ \E t \in T : onresult(t)
  \/ toggleRecognition
  \/ closeChecklistView
  \/ toggleListeningMode
  \/ stopButton
  \/ utteranceOnstart
  \/ utteranceOnend
  \/ \E c \in EditedChecklists : saveChecklist(c)

\* The same steps while the editor of checklists is not used: the repository
\* of checklists stays as persisted.
NextFixed(T) ==
  \/ \E t \in T : onresult(t)
  \/ toggleRecognition
  \/ closeChecklistView
  \/ toggleListeningMode
  \/ stopButton
  \/ utteranceOnstart
  \/ utteranceOnend

Next == NextOver(Transcripts)

Spec == Init /\ [][Next]_vars

SpecChecklist == Init /\ [][NextOver(ChecklistTranscripts)]_vars

SpecWake == Init /\ [][NextOver(WakeTranscripts)]_vars

SpecStop == Init /\ [][NextOver(StopTranscripts)]_vars

SpecCancel == Init /\ [][NextOver(CancelTranscripts)]_vars

SpecRestart == Init /\ [][NextFixed(RestartTranscripts)]_vars

SpecReject == Init /\ [][NextOver(RejectTranscripts)]_vars

SpecOrdinal == Init /\ [][NextFixed(OrdinalTranscripts)]_vars

SpecAerodrome == Init /\ [][NextFixed(AerodromeTranscripts)]_vars

SpecPlan == Init /\ [][NextOver(PlanTranscripts)]_vars

SpecRepeat == Init /\ [][NextOver(RepeatTranscripts)]_vars

SpecGuide == Init /\ [][NextFixed(GuideTranscripts)]_vars

\* The steps of the interpreter and of the synthesis, whose utterances start,
\* end or fail
NextSpeech(T) ==
  \/ \E t \in T : onresult(t)
  \/ toggleRecognition
  \/ stopButton
  \/ utteranceOnstart
  \/ utteranceOnend
  \/ utteranceOnerror

SpecSpeech == Init /\ [][NextSpeech(SpeechTranscripts)]_vars

\* The browser delivers the start and the end event of an utterance of the
\* queue; whether an utterance fails, and what the user does, is left open.
SpecSpeechFair ==
  /\ SpecSpeech
  /\ WF_vars(utteranceOnstart)
  /\ WF_vars(utteranceOnend)

\* The checklist 'Prevuelo' with the third item of the seed
LongChecklists ==
  << [PersistedChecklists[1] EXCEPT !.items = Append(@, [id |-> "3", text |-> "Nivel de combustible y aceite"])] >>

\* What the pilot says while the effect that stores the state in stateRef is
\* followed as a step of its own
StaleTranscripts == { "Copiloto leer checklist Prevuelo", "siguiente" }

\* The state after construction with the effect of lines 213-216 followed as
\* a step of its own
InitStale ==
  /\ InitRef(LongChecklists, PersistedRoutes, PersistedAerodromes, "1", NoRun, TRUE)
  /\ rec = Mounted

\* The effect of lines 213-216 runs after a commit: stateRef.current is the
\* committed state
refreshEffect ==
  /\ stateRef.postponed
  /\ stateRef # [Committed EXCEPT !.postponed = TRUE]
  /\ stateRef' = [Committed EXCEPT !.postponed = TRUE]
  /\ UNCHANGED <<checklists, routes, aerodromes, activeRouteId, appState, logs,
                 activeChecklist, checklistIndex, isSpeaking, isRecognitionEnabled,
                 listeningMode, lastSpoken, synth, last, run, rec>>

\* The deferred callbacks and the effect that stores the state in stateRef,
\* in any order
NextStale(T) ==
  \/ \E t \in T : onresult(t)
  \/ refreshEffect
  \/ utteranceOnstart
  \/ utteranceOnend
  \/ \E i \in 1..MaxSessions : recognitionOnend(i)
  \/ \E i \in 1..MaxSessions : selfRestartTimer(i)
  \/ synthTimer

SpecStale == InitStale /\ [][NextStale(StaleTranscripts)]_vars

\* What the pilot says while the checklists are edited
HeldTranscripts == { "Copiloto leer checklist Prevuelo", "siguiente" }

\* The longest Session Log at which the pilot still speaks or imports while
\* the checklists are edited.
MaxHeldLog == 3

\* The steps of the interpreter and of the editors of checklists
NextHeld(T) ==
  \/ Len(logs) < MaxHeldLog /\ \E t \in T : onresult(t)
  \/ utteranceOnstart
  \/ utteranceOnend
  \/ Len(logs) < MaxHeldLog /\ \E data \in ChecklistImports : handleImportChecklists(data)
  \/ \E k \in 1..MaxChecklists : k <= Len(checklists) /\ deleteChecklist(checklists[k].id)
  \/ \E k \in 1..MaxChecklists, idx \in 1..MaxItems, text \in EditedItemTexts : typeItemText(k, idx, text)

SpecHeld == Init /\ [][NextHeld(HeldTranscripts)]_vars

\* The steps after startup, none when App was not mounted
NextStartup(T) ==
  \/ ~Crashed /\ \E t \in T : onresult(t)
  \/ ~Crashed /\ utteranceOnstart
  \/ ~Crashed /\ utteranceOnend

SpecStartup == InitStartup /\ [][NextStartup(StartupTranscripts)]_vars

SpecUnmatched == Init /\ [][NextFixed(UnmatchedTranscripts)]_vars

\* The steps of the interpreter while the pilot only talks: the transcripts of
\* T arrive, the utterances of the queue start and end.
NextVoice(T) ==
  \/ \E t \in T : onresult(t)
  \/ closeChecklistView
  \/ utteranceOnstart
  \/ utteranceOnend

SpecDispatch == Init /\ [][NextVoice(DispatchTranscripts)]_vars

\* Queries of a route, of an aerodrome, help and repeat, next to a selection
\* and an advance
InfoTranscripts ==
  { "Copiloto leer checklist Prevuelo",
    "siguiente",
    "punto 1",
    "copiloto pistas",
    "ayuda",
    "repite" }

SpecInfo == Init /\ [][NextVoice(InfoTranscripts)]_vars

SpecFrequency == InitFrequency /\ [][NextFixed(FrequencyTranscripts)]_vars

\* The longest Session Log at which the pilot still speaks or imports while
\* the routes are edited.
MaxRouteLog == 2

\* The steps of the interpreter and of the editors of routes, when the
\* recognition delivers transcripts of T.
NextRoutes(T) ==
  \/ Len(logs) < MaxRouteLog /\ \E t \in T : onresult(t)
  \/ \E i \in 1..MaxRoutes : selectRoute(i)
  \/ \E name \in EditedRouteNames : saveRouteNew(name)
  \/ \E i \in 1..MaxRoutes, name \in EditedRouteNames : saveRouteEdit(i, name)
  \/ \E i \in 1..MaxRoutes : duplicateRoute(i)
  \/ \E i \in 1..MaxRoutes : deleteRoute(i)
  \/ Len(logs) < MaxRouteLog /\ \E data \in RouteImports : handleImportCSV(data)

SpecRoutes == InitRoutes /\ [][NextRoutes(RouteTranscripts)]_vars

\* The steps of the interpreter and the CSV import, when the recognition
\* delivers transcripts of T.
NextLog(T) ==
  \/ NextFixed(T)
  \/ \E data \in RouteImports : handleImportCSV(data)

SpecLog == Init /\ [][NextLog(LogTranscripts)]_vars

\* The steps of the interpreter, of the recognition that feeds it and of the
\* timers, when the sessions deliver transcripts of T.
NextChannel(T) ==
  \/ \E t \in T : onresult(t)
  \/ toggleRecognition
  \/ toggleListeningMode
  \/ stopButton
  \/ utteranceOnstart
  \/ utteranceOnend
  \/ orphanOnend
  \/ \E i \in 1..MaxSessions : recognitionOnend(i)
  \/ \E i \in 1..MaxSessions : selfRestartTimer(i)
  \/ synthTimer

SpecChannel == InitChannel /\ [][NextChannel(ChannelTranscripts)]_vars

\* The steps of the recognition that fails, of its timers and of the buttons
\* that start and stop it
NextError ==
  \/ toggleRecognition
  \/ utteranceOnstart
  \/ utteranceOnend
  \/ synthTimer
  \/ retryButton
  \/ \E i \in 1..MaxSessions : recognitionOnend(i)
  \/ \E i \in 1..MaxSessions : selfRestartTimer(i)
  \/ \E i \in 1..MaxSessions : recognitionOnstart(i)
  \/ \E i \in 1..MaxSessions, error \in RecognitionErrors : recognitionOnerror(i, error)

SpecError == InitChannel /\ [][NextError]_vars

\* A session that stop() has stopped delivers its end event
stoppedSessionEnds(i) ==
  /\ rec.tracked
  /\ i \in 1..Len(rec.sessions)
  /\ rec.sessions[i].phase = "stopping"
  /\ recognitionOnend(i)

\* Timers fire and the callbacks of the browser are delivered: an utterance
\* of the queue starts and ends, a stopped session ends.  What the user does,
\* when a running session ends on its own, and whether a cancelled utterance
\* still delivers its end event, is left open.
SpecChannelFair ==
  /\ SpecChannel
  /\ WF_vars(utteranceOnstart)
  /\ WF_vars(utteranceOnend)
  /\ WF_vars(synthTimer)
  /\ \A i \in 1..MaxSessions : WF_vars(selfRestartTimer(i))
  /\ \A i \in 1..MaxSessions : WF_vars(stoppedSessionEnds(i))

-----------------------------------------------------------------------------
(* Properties *)

\* A run of handleCommand that got past the guard for speaker mode
Handled == last.op = "onresult" /\ ~last.dropped

\* The transcript of the latest run, lowercased and trimmed
Heard == Trim(ToLowerCase(last.transcript))

\* The transcript holds the wake token
HasWake == Includes(Heard, "copiloto")

\* All the text after the first occurrence of the wake token, trimmed
AfterWake ==
  Trim(SubSeq(Heard, IndexOf(Heard, "copiloto") + Len("copiloto"), Len(Heard)))

UserEntry == [text |-> last.transcript, type |-> "user"]

SystemEntry(text) == [text |-> text, type |-> "system"]

\* The run left the interpreter's state and the active route as they were
SessionUntouched ==
  /\ appState = last.before.appState
  /\ activeChecklist = last.before.activeChecklist
  /\ checklistIndex = last.before.checklistIndex
  /\ activeRouteId = last.before.activeRouteId

\* The run spoke nothing and stopped nothing
Silent ==
  /\ last.said = <<>>
  /\ ~last.stopped
  /\ lastSpoken = last.before.lastSpoken
  /\ synth = last.before.synth
  /\ isSpeaking = last.before.isSpeaking

NamedChecklists ==
  {i \in 1..Len(checklists) :
     Includes(last.dispatched[1], ToLowerCase(checklists[i].name))}

FirstNamed == checklists[CHOOSE i \in NamedChecklists : \A j \in NamedChecklists : i <= j]

Announcement(c) ==
  "Iniciando checklist " \o c.name \o ". Primer punto: "
    \o (IF Len(c.items) > 0 THEN c.items[1].text ELSE "")

\* C2: a dispatched command containing 'checklist' whose text contains the
\* lowercased name of at least one checklist makes the first such checklist,
\* in iteration order, the active checklist, with index 0 and mode checklist,
\* and the announcement 'Iniciando checklist {name}. Primer punto: {first
\* item}' is spoken and logged, from every starting mode.
C2_SelectionAnnounced ==
  (/\ Handled
   /\ last.dispatched # <<>>
   /\ Includes(last.dispatched[1], "checklist")
   /\ NamedChecklists # {}) =>
    /\ activeChecklist = << FirstNamed >>
    /\ checklistIndex = 0
    /\ appState = "checklist"
    /\ last.said = << Announcement(FirstNamed) >>
    /\ logs = last.before.logs
                \o << UserEntry, SystemEntry(Announcement(FirstNamed)) >>

\* C3: appState = checklist if and only if activeChecklist is non-null.
C3_ChecklistModeIffActive ==
  (appState = "checklist") <=> (activeChecklist # null)

\* C4: whenever activeChecklist is non-null, checklistIndex is -1 or an index
\* of one of its items.
C4_IndexValid ==
  activeChecklist # null =>
    \/ checklistIndex = -1
    \/ (0 <= checklistIndex /\ checklistIndex < Len(activeChecklist[1].items))

\* C5: a transcript delivered while listeningMode = speaker and isSpeaking =
\* true is dropped: no log entry, no dispatch, nothing spoken, and the mode,
\* the active checklist, the index and the active route stay as they were.
C5_SpeakerGuardDrops ==
  (/\ last.op = "onresult"
   /\ last.before.listeningMode = "speaker"
   /\ last.before.isSpeaking) =>
    /\ last.dropped
    /\ last.dispatched = <<>>
    /\ logs = last.before.logs
    /\ Silent
    /\ SessionUntouched

\* A 'siguiente' arrived while the first item of a checklist was being spoken
\* in speaker mode.
C5_Witness ==
  /\ last.op = "onresult"
  /\ last.dropped
  /\ last.transcript = "siguiente"
  /\ last.before.listeningMode = "speaker"
  /\ last.before.isSpeaking
  /\ last.before.appState = "checklist"

C8_TextAfterFirstWakeDispatched ==
  (Handled /\ HasWake /\ AfterWake # "") =>
    last.dispatched = << AfterWake >>

\* The variants of a command that reach the cancel / stop branch in the
\* model's transcripts
CancelDispatched == Handled /\ last.dispatched = << "cancelar" >>

StopDispatched ==
  /\ Handled
  /\ last.dispatched # <<>>
  /\ last.dispatched[1] \in {"parar", "silencio"}

\* C9: a dispatched 'cancelar' stops the speech in progress, speaks
\* 'Operación cancelada' and leaves mode idle, no active checklist and index
\* -1, from every starting mode.
C9_CancelResets ==
  CancelDispatched =>
    /\ last.stopped
    /\ ~isSpeaking
    /\ last.said = << ("Operaci" \o oacute \o "n cancelada") >>
    /\ synth = << [text |-> ("Operaci" \o oacute \o "n cancelada"), phase |-> "pending"] >>
    /\ appState = "idle"
    /\ activeChecklist = null
    /\ checklistIndex = -1

\* 'copiloto cancelar' was heard in headphones mode while an item of a
\* checklist was being spoken.
C9_Witness ==
  /\ CancelDispatched
  /\ last.before.appState = "checklist"
  /\ last.before.checklistIndex = 1
  /\ last.before.isSpeaking
  /\ last.before.synth # <<>>

RestartDispatched ==
  /\ Handled
  /\ last.dispatched # <<>>
  /\ last.dispatched[1] \in {"reiniciar", "empezar de nuevo"}

\* C11: while the mode is checklist, a dispatched 'reiniciar' or 'empezar de
\* nuevo' sets checklistIndex to 0 whatever it was, and leaves the mode and
\* the active checklist as they were.
C11_RestartResetsIndex ==
  (RestartDispatched /\ last.before.appState = "checklist") =>
    /\ checklistIndex = 0
    /\ appState = "checklist"
    /\ activeChecklist = last.before.activeChecklist
    /\ activeChecklist # null

\* The checklist stood at its second item when the restart was heard.
C11_Witness ==
  /\ RestartDispatched
  /\ last.before.appState = "checklist"
  /\ last.before.checklistIndex = 1
  /\ checklistIndex = 0
  /\ last.said = << ("Reiniciando checklist. Primer punto: Documentaci" \o oacute \o "n del avi" \o oacute \o "n a bordo") >>

\* A dispatched command with 'checklist' that names no checklist
RejectDispatched ==
  /\ Handled
  /\ last.dispatched # <<>>
  /\ Includes(last.dispatched[1], "checklist")
  /\ NamedChecklists = {}

Rejection ==
  "No he reconocido esa checklist. Las opciones son: "
    \o Join([i \in 1..Len(checklists) |-> checklists[i].name], ", ")

\* The rejection is spoken, and the active checklist and the index stay
RejectionSpoken ==
  RejectDispatched =>
    /\ last.said = << Rejection >>
    /\ activeChecklist = last.before.activeChecklist
    /\ checklistIndex = last.before.checklistIndex

\* C12: when a command with 'checklist' names no existing checklist, the
\* rejection listing all checklist names is spoken and the mode, the active
\* checklist and the index are what they were before the utterance, from
\* every starting mode, idle with a wake-worded utterance included.
C12_RejectionKeepsMode ==
  RejectDispatched =>
    /\ last.said = << Rejection >>
    /\ appState = last.before.appState
    /\ activeChecklist = last.before.activeChecklist
    /\ checklistIndex = last.before.checklistIndex

\* The greatest ordinal the queries of C13 are tried with.
MaxOrdinal == 12

\* The Spanish number word of p, for the words the interpreter knows
OrdinalWords(p) ==
  CASE p = 1 -> {"uno", "una", "un"}
    [] p = 2 -> {"dos"} [] p = 3 -> {"tres"} [] p = 4 -> {"cuatro"}
    [] p = 5 -> {"cinco"} [] p = 6 -> {"seis"} [] p = 7 -> {"siete"}
    [] p = 8 -> {"ocho"} [] p = 9 -> {"nueve"} [] p = 10 -> {"diez"}
    [] OTHER -> {}

\* The queries that give p as the ordinal after 'punto' or 'punto de ruta'
OrdinalQueries(p) ==
  {prefix \o n : prefix \in {"punto ", "punto de ruta ", "dime el punto "},
                 n \in {ToString(p)} \cup OrdinalWords(p)}

\* The ordinal the dispatched command gives, 0 when it gives none
AskedOrdinal ==
  LET ps == {p \in 1..MaxOrdinal : last.dispatched[1] \in OrdinalQueries(p)}
  IN IF ps = {} THEN 0 ELSE CHOOSE p \in ps : TRUE

\* The waypoints of the route that was active when the transcript came
ActiveBefore == ActiveRoute(routes, last.before.activeRouteId)

Details(w) ==
  "Punto de ruta " \o w.name \o ". Rumbo " \o w.heading \o " grados, Altitud "
    \o w.altitude \o ", Techo " \o w.ceiling \o ". Notas: " \o w.notes

\* Every query with ordinal p, on every route, resolves by ordinal to the
\* waypoint at position p, and to nothing when p is out of range
OrdinalResolves ==
  \A i \in 1..Len(routes), p \in 1..MaxOrdinal : \A q \in OrdinalQueries(p) :
    puntoByOrdinal(routes[i].puntosRuta, numMatch(q))
      = IF p <= Len(routes[i].puntosRuta) THEN << routes[i].puntosRuta[p] >>
        ELSE <<>>

AerodromeDispatched ==
  /\ Handled
  /\ last.dispatched # <<>>
  /\ \/ Includes(last.dispatched[1], ("aer" \o oacute \o "dromo"))
     \/ Includes(last.dispatched[1], "aerodromo")
     \/ Includes(last.dispatched[1], "pistas")

\* The aerodromes, by place in the list, whose accent-stripped lowercased
\* name or lowercased code is in the accent-stripped command
MatchingAerodromes ==
  {i \in 1..Len(aerodromes) :
     \/ Includes(stripAccents(last.dispatched[1]), stripAccents(aerodromes[i].name))
     \/ Includes(stripAccents(last.dispatched[1]), ToLowerCase(aerodromes[i].code))}

\* The aerodrome the claim resolves the query to
ExpectedAerodrome ==
  IF MatchingAerodromes = {} THEN aerodromes[1]
  ELSE aerodromes[CHOOSE i \in MatchingAerodromes :
                    \A j \in MatchingAerodromes : i <= j]

\* What the data of the model give for each of its queries
AerodromeByHand ==
  CASE last.dispatched[1] = "aerodromo ocana" -> ("Oca" \o ntilde \o "a")
    [] last.dispatched[1] = "pistas de leoc" -> ("Oca" \o ntilde \o "a")
    [] last.dispatched[1] = ("aer" \o oacute \o "dromo casarrubios del monte") -> "Casarrubios"
    [] last.dispatched[1] = ("datos del aer" \o oacute \o "dromo villanueva") -> "Casarrubios"

\* The reply is about aerodrome a
RepliesAbout(a) ==
  /\ Len(last.said) = 1
  /\ LET head == ("Aer" \o oacute \o "dromo ") \o a.name \o (", c" \o oacute \o "digo ")
                   \o spellAeronautical(a.code) \o (". Elevaci" \o oacute \o "n ")
     IN /\ Len(last.said[1]) >= Len(head)
        /\ SubSeq(last.said[1], 1, Len(head)) = head
  /\ logs = last.before.logs \o << UserEntry, SystemEntry(last.said[1]) >>

\* C14: a dispatched aerodrome query resolves to the first aerodrome, in
\* list order, whose accent-stripped lowercased name or lowercased code is a
\* substring of the accent-stripped command, and to the first aerodrome of
\* the repository when none matches.
C14_AerodromeFirstMatch ==
  AerodromeDispatched =>
    /\ RepliesAbout(ExpectedAerodrome)
    /\ ExpectedAerodrome.name = AerodromeByHand

\* 'ocana', heard without its tilde, resolved to Ocaña, the second
\* aerodrome.
C14_Witness ==
  /\ AerodromeDispatched
  /\ last.dispatched = << "aerodromo ocana" >>
  /\ last.said =
       << "Aer" \o oacute \o "dromo Oca" \o ntilde \o "a, c" \o oacute
            \o "digo Lima Echo Oscar Charlie. Elevaci" \o oacute
            \o "n no especificada. . Frecuencias uno dos tres decimal cinco cero cero. " >>

\* A dispatched route command with 'cargar', 'seleccionar' or 'activar'
PlanDispatched ==
  /\ Handled
  /\ last.dispatched # <<>>
  /\ ~Includes(last.dispatched[1], "checklist")
  /\ \/ Includes(last.dispatched[1], "plan de vuelo")
     \/ Includes(last.dispatched[1], "punto")
     \/ Includes(last.dispatched[1], "ruta")
  /\ \/ Includes(last.dispatched[1], "cargar")
     \/ Includes(last.dispatched[1], "seleccionar")
     \/ Includes(last.dispatched[1], "activar")

\* The routes, by place in the list, whose lowercased name the command holds
NamedRoutes ==
  {i \in 1..Len(routes) : Includes(last.dispatched[1], ToLowerCase(routes[i].name))}

FirstNamedRoute ==
  routes[CHOOSE i \in NamedRoutes : \A j \in NamedRoutes : i <= j]

LoadedMessage(r) ==
  "Plan de vuelo " \o r.name \o " cargado. Tiene "
    \o ToString(Len(r.puntosRuta)) \o " puntos de ruta."

\* The places of the log ls where the load of a route is reported
LoadsIn(ls) ==
  {j \in 1..Len(ls) :
     /\ ls[j].type = "system"
     /\ \E i \in 1..Len(routes) : ls[j].text = LoadedMessage(routes[i])}

\* The route the log ls reports as loaded last; the route that was active
\* at the start when it reports none
LoadedLast(ls) ==
  IF LoadsIn(ls) = {} THEN routes[1]
  ELSE LET j == CHOOSE j \in LoadsIn(ls) : \A k \in LoadsIn(ls) : k <= j
       IN routes[CHOOSE i \in 1..Len(routes) : ls[j].text = LoadedMessage(routes[i])]

RepeatDispatched ==
  /\ Handled
  /\ last.dispatched # <<>>
  /\ last.dispatched[1] \in {"repetir", "repite"}

\* What a repeat speaks and logs, by the text remembered when it came
RepeatSpeaks ==
  RepeatDispatched =>
    IF last.before.lastSpoken # ""
    THEN /\ last.said = << last.before.lastSpoken >>
         /\ logs = last.before.logs
               \o << UserEntry,
                     SystemEntry("Repitiendo: " \o last.before.lastSpoken) >>
    ELSE last.said = << "No hay nada que repetir." >>

\* C16: a dispatched 'repetir' / 'repite' speaks again the text passed to
\* speak last and logs 'Repitiendo: {that text}' when there is one, and
\* speaks 'No hay nada que repetir.' otherwise; a repeat does not change the
\* text remembered as last spoken.
C16_RepeatKeepsLastSpoken ==
  RepeatDispatched =>
    /\ IF last.before.lastSpoken # ""
       THEN /\ last.said = << last.before.lastSpoken >>
            /\ logs = last.before.logs
                  \o << UserEntry,
                        SystemEntry("Repitiendo: " \o last.before.lastSpoken) >>
       ELSE last.said = << "No hay nada que repetir." >>
    /\ lastSpoken = last.before.lastSpoken

\* C17: at most one utterance is in flight at every moment: a speak cancels
\* the utterance in progress before it starts the new one and nothing is
\* queued; the last-spoken text is the argument of the latest speak.
C17_OneUtteranceInFlight ==
  /\ Len(synth) <= 1
  /\ synth # <<>> => synth[1].text = lastSpoken
  /\ (last.op = "onresult" /\ last.said # <<>>) =>
       /\ lastSpoken = last.said[Len(last.said)]
       /\ synth = << [text |-> lastSpoken, phase |-> "pending"] >>

\* A repeat was spoken over an utterance that was still being spoken.
C17_Witness ==
  /\ RepeatDispatched
  /\ last.before.synth # <<>>
  /\ last.before.synth[1].phase = "speaking"
  /\ last.before.isSpeaking
  /\ last.said = << last.before.synth[1].text >>
  /\ Len(synth) = 1
  /\ synth[1].phase = "pending"

\* The recognition state is well formed: the reference is null or a session,
\* no more sessions, timers and end events are followed than the bounds allow.
RecOK ==
  /\ rec.ref \in 0..Len(rec.sessions)
  /\ Len(rec.sessions) <= MaxSessions
  /\ rec.synthTimers \in 0..MaxSynthTimers
  /\ rec.orphans \in 0..MaxOrphans
  /\ \A i \in 1..Len(rec.sessions) : ~Dead(rec, i)

\* The latest step started or restarted a recognition session while the
\* system was speaking in speaker mode.
StartedWhileSpeaking ==
  /\ rec.started.how # "none"
  /\ rec.started.mode = "speaker"
  /\ rec.started.speaking

\* C18: in speaker mode no recognition session is started or restarted while
\* the system is speaking: whatever step starts a session (the self-restart
\* timer of a session, the synthesis-completion timer, the effect of enabling)
\* finds isSpeaking false or the mode headphones.
C18_NoStartWhileSpeaking == ~StartedWhileSpeaking

\* The part of C18 that the code keeps: when an utterance starts in speaker
\* mode, the session of recognitionRef.current is not running afterwards.
SpeechStopsTheSession ==
  [][(synth # <<>> /\ synth[1].phase = "pending"
        /\ synth' # <<>> /\ synth'[1].phase = "speaking"
        /\ listeningMode = "speaker" /\ rec.ref # 0)
       => rec'.sessions[rec'.ref].phase # "running"]_vars

SelfRestartNotWhileSpeaking == ~(StartedWhileSpeaking /\ rec.started.how = "self")

SynthTimerNotWhileSpeaking == ~(StartedWhileSpeaking /\ rec.started.how = "synth")

\* A recognition session is running.
Listening == \E i \in 1..Len(rec.sessions) : rec.sessions[i].phase = "running"

\* C19: while recognition is enabled, whenever no recognition session is
\* running (a session has ended), a session is running again later, or the
\* recognition has been disabled in between.
C19_SessionComesBack ==
  (isRecognitionEnabled /\ ~Listening) ~> (Listening \/ ~isRecognitionEnabled)

\* Recognition is enabled, no session is left, and no timer, utterance or end
\* event is pending that could start one: only the user can go on.
Stranded ==
  /\ isRecognitionEnabled
  /\ rec.tracked
  /\ rec.sessions = <<>>
  /\ rec.synthTimers = 0
  /\ rec.orphans = 0
  /\ synth = <<>>

\* How many recognition sessions of r are running.
RunningCount(r) == Cardinality({i \in 1..Len(r.sessions) : r.sessions[i].phase = "running"})

\* The session of recognitionRef.current is running.
RefRunning(r) == r.ref # 0 /\ r.sessions[r.ref].phase = "running"

\* No session of r that has not ended has its onend handler attached.
Detached(r) == \A i \in 1..Len(r.sessions) : r.sessions[i].onend => r.sessions[i].phase = "ended"

\* C20: the step that disables recognition tears the active session down (the
\* session of recognitionRef.current stops running, no session that can still
\* end has an onend handler, the reference is cleared), and no step taken
\* while recognition is disabled starts a session: no timer that fires and no
\* recognition-end or synthesis-end event makes a session run or creates one.
C20_DisabledStartsNothing ==
  [][ /\ (isRecognitionEnabled /\ ~isRecognitionEnabled')
         => /\ rec'.ref = 0
            /\ Detached(rec')
            /\ RunningCount(rec') = RunningCount(rec) - (IF RefRunning(rec) THEN 1 ELSE 0)
      /\ (~isRecognitionEnabled /\ ~isRecognitionEnabled')
         => /\ rec'.started.how = "none"
            /\ rec'.ref = 0
            /\ RunningCount(rec') <= RunningCount(rec)
            /\ Len(rec'.sessions) <= Len(rec.sessions) ]_vars

\* Recognition has been disabled: the session that was active is stopping
\* without its onend handler, and both a self-restart timer of a session and
\* a synthesis-completion timer are still pending.
C20_Witness ==
  /\ ~isRecognitionEnabled
  /\ rec.tracked
  /\ rec.ref = 0
  /\ rec.synthTimers > 0
  /\ \E i \in 1..Len(rec.sessions) : rec.sessions[i].timer
  /\ \E i \in 1..Len(rec.sessions) :
       rec.sessions[i].phase = "stopping" /\ ~rec.sessions[i].onend

\* The sessions of r that are running or that a pending self-restart timer
\* is about to start.
RunningOrScheduled(r) ==
  {i \in 1..Len(r.sessions) : r.sessions[i].phase = "running" \/ r.sessions[i].timer}

\* C21: at most one recognition session is running or scheduled to start at
\* any time, so never two sessions forward transcripts to the interpreter.
C21_OneSession == Cardinality(RunningOrScheduled(rec)) <= 1

\* The stronger fact behind the second half of C21: never two sessions run.
NeverTwoRunning == RunningCount(rec) <= 1

\* The entries that the latest run appended to the Session Log.
Appended == SubSeq(logs, Len(last.before.logs) + 1, Len(logs))

\* C22: a run that passes the speaker-mode guard appends the utterance as a
\* user entry first, and then one system entry for every text it speaks, with
\* the same text and in the order of speaking.
C22_UtterancesLogged ==
  (Handled /\ ~last.threw)
    => /\ Appended # <<>>
       /\ Appended[1] = UserEntry
       /\ Tail(Appended) = [i \in 1..Len(last.said) |-> SystemEntry(last.said[i])]

\* The half of C22 that the code keeps: the user entry comes first.
UserEntryFirst ==
  Handled => (Appended # <<>> /\ Appended[1] = UserEntry)

\* The ids of the routes are distinct.
RouteIdsDistinct ==
  \A i, j \in 1..Len(routes) : routes[i].id = routes[j].id => i = j

\* a is a prefix of b
IsPrefix(a, b) == Len(a) <= Len(b) /\ SubSeq(b, 1, Len(a)) = a

\* C23: the Session Log is append-only: every step (a voice command, a
\* toggle, a button, a speech event, a CSV import) leaves the log it found as
\* a prefix of the log after it.
C23_LogAppendOnly == [][IsPrefix(logs, logs')]_vars

\* The log holds an entry of a voice command, of the microphone toggle and of
\* a CSV import, the import not being the first entry.
C23_Witness ==
  /\ \E i \in 1..Len(logs) : logs[i].type = "user"
  /\ \E i \in 1..Len(logs) : logs[i].text = "Sistema de escucha desactivado"
  /\ \E i \in 2..Len(logs) : logs[i].text = "Importaci" \o oacute \o "n de routes completada"

\* The dispatched command is 'cargar plan {name}' as the in-app guide gives it.
GuideCargar ==
  /\ Handled
  /\ last.dispatched # <<>>
  /\ SubSeq(last.dispatched[1], 1, Len("cargar plan ")) = "cargar plan "

\* C24: a dispatched 'cargar plan {name}' that names an existing flight plan
\* makes that plan (the first one named) the active plan.
C24_GuideCargarLoads ==
  (GuideCargar /\ NamedRoutes # {}) => activeRouteId = FirstNamedRoute.id

\* What the code does instead: a 'cargar plan {name}' that holds none of
\* 'plan de vuelo', 'punto' and 'ruta' is a silent no-op.
GuideCargarIgnored ==
  (GuideCargar /\ ~Includes(last.dispatched[1], "plan de vuelo")
     /\ ~Includes(last.dispatched[1], "punto") /\ ~Includes(last.dispatched[1], "ruta"))
    => /\ Silent
       /\ activeRouteId = last.before.activeRouteId
       /\ logs = Append(last.before.logs, UserEntry)

\* The latest transcript is a cancel or stop utterance.
StopSaid ==
  /\ last.op = "onresult"
  /\ \/ Includes(Heard, "cancelar")
     \/ Includes(Heard, "parar")
     \/ Includes(Heard, "silencio")

\* An utterance was being spoken when the latest transcript came.
SpokenOver ==
  /\ last.before.synth # <<>>
  /\ last.before.synth[1].phase = "speaking"

\* C25: a cancel or stop utterance said while an utterance is being spoken
\* stops that speech, in speaker mode as in headphones mode.
C25_StopAlwaysStops == (StopSaid /\ SpokenOver) => last.stopped

\* What the code keeps of C25: a stop utterance that is dispatched stops the
\* speech.
DispatchedStopStops ==
  (StopSaid /\ SpokenOver /\ last.dispatched # <<>>) => last.stopped

\* The reading that C26 gives for one character: a digit as its Spanish number
\* word, '.' as 'decimal', any other character as itself.
ClaimedChar(c) ==
  CASE c = "0" -> "cero" [] c = "1" -> "uno" [] c = "2" -> "dos"
    [] c = "3" -> "tres" [] c = "4" -> "cuatro" [] c = "5" -> "cinco"
    [] c = "6" -> "seis" [] c = "7" -> "siete" [] c = "8" -> "ocho"
    [] c = "9" -> "nueve" [] c = "." -> "decimal"
    [] OTHER -> c

ClaimedReading(freq) == Join([i \in 1..Len(freq) |-> ClaimedChar(SubSeq(freq, i, i))], " ")

\* The latest run answered an aerodrome query with the frequencies.
FrequenciesRead ==
  /\ Handled
  /\ last.said # <<>>
  /\ Includes(last.said[1], ". Frecuencias ")

\* C26: readFrequency maps its input character by character, a digit to its
\* Spanish number word, '.' to 'decimal', any other character to itself, joined
\* by single spaces: the frequency that an aerodrome reply reads out is that
\* reading, and readFrequency("123.500") is "uno dos tres decimal cinco cero cero".
C26_ReadFrequencyCharByChar ==
  FrequenciesRead =>
    /\ readFrequency("123.500") = "uno dos tres decimal cinco cero cero"
    /\ \A i \in 1..Len(aerodromes[1].frequencies) :
         /\ readFrequency(aerodromes[1].frequencies[i]) = ClaimedReading(aerodromes[1].frequencies[i])
         /\ Includes(last.said[1], ". Frecuencias " \o ClaimedReading(aerodromes[1].frequencies[i]) \o ". ")

\* What the code keeps of C26: the reading holds for every frequency without
\* an uppercase letter.
ReadFrequencyLowercase ==
  FrequenciesRead =>
    \A i \in 1..Len(aerodromes[1].frequencies) :
      (ToLowerCase(aerodromes[1].frequencies[i]) = aerodromes[1].frequencies[i])
        => Includes(last.said[1], ". Frecuencias " \o ClaimedReading(aerodromes[1].frequencies[i]) \o ". ")

\* The system entries of a log, in their order
SystemEntries(log) == SelectSeq(log, LAMBDA entry : entry.type = "system")

\* A repeat spoke again the text remembered as last spoken.
Respoken ==
  /\ RepeatDispatched
  /\ last.before.lastSpoken # ""
  /\ last.said = << last.before.lastSpoken >>

\* C27: whenever 'repetir' re-speaks an utterance, the re-spoken text is the
\* text of the last system utterance recorded in the Session Log before that
\* repeat.
C27_RepeatSpeaksLastLogged ==
  Respoken =>
    /\ SystemEntries(last.before.logs) # <<>>
    /\ SystemEntries(last.before.logs)[Len(SystemEntries(last.before.logs))].text = last.said[1]

\* What the code keeps of C27: the re-spoken text is the one held by
\* lastSpokenRef, and the entry logged for the repeat is 'Repitiendo: ' and
\* that text.
RespokenIsRemembered ==
  Respoken =>
    /\ SystemEntries(logs) # <<>>
    /\ SystemEntries(logs)[Len(SystemEntries(logs))].text = "Repitiendo: " \o last.said[1]

\* A run dispatched a command and no exception ended it.
Dispatched == Handled /\ last.dispatched # <<>> /\ ~last.threw

\* The rules of the cascade in their fixed order
Rules == << "selection", "progression", "route", "aerodrome", "help", "stop", "repeat" >>

\* The words of a rule are in the command cmd, for the mode and the active
\* checklist that the run found.
Matches(rule, cmd) ==
  CASE rule = "selection"   -> Includes(cmd, "checklist")
    [] rule = "progression" ->
         /\ last.before.appState = "checklist"
         /\ last.before.activeChecklist # null
         /\ \E w \in {"check", "hecho", "siguiente", "reiniciar", "empezar de nuevo"} :
              Includes(cmd, w)
    [] rule = "route"       ->
         \E w \in {"plan de vuelo", "punto", "ruta"} : Includes(cmd, w)
    [] rule = "aerodrome"   ->
         \E w \in {"aer" \o oacute \o "dromo", "aerodromo", "pistas"} : Includes(cmd, w)
    [] rule = "help"        -> \E w \in {"opciones", "ayuda"} : Includes(cmd, w)
    [] rule = "stop"        ->
         \E w \in {"cancelar", "parar", "silencio"} : Includes(cmd, w)
    [] rule = "repeat"      -> \E w \in {"repetir", "repite"} : Includes(cmd, w)

\* The position in Rules of the earliest rule that matches cmd, 0 for none
Earliest(cmd) ==
  LET hit == {i \in 1..Len(Rules) : Matches(Rules[i], cmd)}
  IN IF hit = {} THEN 0 ELSE CHOOSE i \in hit : \A j \in hit : i <= j

\* The latest run spoke one text and logged it as it was spoken.
SpokenAndLogged ==
  /\ Len(last.said) = 1
  /\ Appended = << UserEntry, SystemEntry(last.said[1]) >>

\* The checklist and its index are the ones the run found.
ChecklistKept ==
  /\ activeChecklist = last.before.activeChecklist
  /\ checklistIndex = last.before.checklistIndex

\* What each rule leaves behind, told apart from what the others leave
Effect(rule) ==
  CASE rule = "selection" ->
         \/ /\ SpokenAndLogged
            /\ IsPrefix("Iniciando checklist ", last.said[1])
            /\ appState = "checklist" /\ checklistIndex = 0
         \/ /\ Len(last.said) = 1
            /\ Appended = << UserEntry >>
            /\ IsPrefix("No he reconocido esa checklist.", last.said[1])
            /\ ChecklistKept
    [] rule = "progression" ->
         \/ /\ SpokenAndLogged
            /\ activeChecklist # null
            /\ activeChecklist = last.before.activeChecklist
            /\ checklistIndex = last.before.checklistIndex + 1
            /\ last.said[1] = activeChecklist[1].items[checklistIndex + 1].text
         \/ /\ SpokenAndLogged
            /\ last.before.activeChecklist # null
            /\ last.said[1] = "Checklist " \o last.before.activeChecklist[1].name \o " completada."
            /\ appState = "idle" /\ activeChecklist = null /\ checklistIndex = -1
         \/ /\ Len(last.said) = 1
            /\ IsPrefix("Reiniciando checklist. Primer punto: ", last.said[1])
            /\ Len(Appended) = 2
            /\ IsPrefix("Reiniciando checklist ", Appended[2].text)
            /\ checklistIndex = 0
    [] rule = "route" ->
         /\ Len(last.said) = 1
         /\ Len(Appended) = 2
         /\ \/ IsPrefix("Plan de vuelo ", Appended[2].text)
            \/ IsPrefix("Punto de ruta ", Appended[2].text)
            \/ IsPrefix("Plan ", Appended[2].text)
         /\ ChecklistKept
    [] rule = "aerodrome" ->
         /\ SpokenAndLogged
         /\ IsPrefix("Aer" \o oacute \o "dromo ", last.said[1])
         /\ ChecklistKept
    [] rule = "help" ->
         /\ SpokenAndLogged
         /\ IsPrefix("Puedes decir: ", last.said[1])
         /\ ChecklistKept
    [] rule = "stop" ->
         /\ last.stopped
         /\ \/ /\ last.said = << "Operaci" \o oacute \o "n cancelada" >>
               /\ Appended = << UserEntry >>
               /\ appState = "idle" /\ activeChecklist = null /\ checklistIndex = -1
            \/ /\ last.said = <<>>
               /\ Appended = << UserEntry, SystemEntry("Lectura detenida") >>
               /\ ChecklistKept
    [] rule = "repeat" ->
         /\ ~last.stopped
         /\ Len(last.said) = 1
         /\ \/ Appended = << UserEntry, SystemEntry("Repitiendo: " \o last.said[1]) >>
            \/ /\ last.said = << "No hay nada que repetir." >>
               /\ Appended = << UserEntry >>
         /\ ChecklistKept

\* C28: the dispatch is first-match-wins in the fixed order checklist
\* selection, checklist progression, route/waypoint, aerodrome, help,
\* cancel/stop, repeat: a dispatched command leaves the effects of the earliest
\* rule that matches it and of no other rule; a command that holds 'checklist'
\* never advances the checklist index, and in checklist mode 'siguiente punto'
\* advances the checklist and answers no route query.
C28_FirstMatchWins ==
  Dispatched =>
    /\ \A i \in 1..Len(Rules) : Effect(Rules[i]) <=> (Earliest(last.dispatched[1]) = i)
    /\ Includes(last.dispatched[1], "checklist") => ~Effect("progression")
    /\ (last.dispatched[1] = "siguiente punto" /\ last.before.appState = "checklist")
         => (Effect("progression") /\ ~Effect("route"))

\* Checklist mode, the second item reached with 'siguiente punto': a command
\* that holds 'checklist' (and so 'check') selected the checklist again.
C28_Witness ==
  /\ Dispatched
  /\ Includes(last.dispatched[1], "checklist")
  /\ last.before.appState = "checklist"
  /\ last.before.checklistIndex = 1
  /\ Len(last.before.logs) >= 2
  /\ last.before.logs[Len(last.before.logs) - 1].text = "siguiente punto"
  /\ Effect("selection")
  /\ checklistIndex = 0

\* A run dispatched a command that holds the words of no rule of the cascade.
UnmatchedDispatched ==
  /\ Dispatched
  /\ Earliest(last.dispatched[1]) = 0

\* C29: a dispatched command that matches no predicate of the cascade is a
\* silent no-op: nothing is spoken, only the user utterance is logged, and the
\* active checklist, the index, the active route and the last-spoken text are
\* unchanged.
C29_UnmatchedIsSilent ==
  UnmatchedDispatched =>
    /\ last.said = <<>>
    /\ ~last.stopped
    /\ synth = last.before.synth
    /\ isSpeaking = last.before.isSpeaking
    /\ logs = Append(last.before.logs, UserEntry)
    /\ activeChecklist = last.before.activeChecklist
    /\ checklistIndex = last.before.checklistIndex
    /\ activeRouteId = last.before.activeRouteId
    /\ lastSpoken = last.before.lastSpoken

\* In headphones mode 'gracias' was dispatched in checklist mode, on the
\* second item, while the item was being spoken.
C29_Witness ==
  /\ UnmatchedDispatched
  /\ last.dispatched = << "gracias" >>
  /\ last.before.appState = "checklist"
  /\ last.before.checklistIndex = 1
  /\ last.before.isSpeaking
  /\ last.before.lastSpoken # ""
  /\ Len(logs) = Len(last.before.logs) + 1

\* The route at place i is the active one: its id is activeRouteId, or no
\* route has that id and it is the first of the list (line 210).
IsActiveRoute(i) ==
  \/ routes[i].id = activeRouteId
  \/ /\ i = 1
     /\ \A j \in 1..Len(routes) : routes[j].id # activeRouteId

\* The latest step deleted the route that was active.
ActiveRouteDeleted ==
  /\ last.op = "deleteRoute"
  /\ last.transcript = last.before.activeRouteId

\* C30: from a non-empty list of routes, after every sequence of route
\* operations (create, rename, duplicate, delete, CSV import, voice 'cargar')
\* the list is never empty and exactly one route is active: the route whose id
\* equals activeRouteId, which is in the list after a delete of the active
\* route, or else the first route.
C30_OneActiveRoute ==
  /\ Len(routes) >= 1
  /\ Cardinality({i \in 1..Len(routes) : IsActiveRoute(i)}) = 1
  /\ \E i \in 1..Len(routes) : IsActiveRoute(i) /\ routes[i] = ActiveRoute(routes, activeRouteId)
  /\ ActiveRouteDeleted => \E i \in 1..Len(routes) : routes[i].id = activeRouteId

\* A route made with the '+' button, which was the active one, was deleted
\* and the first route of the list is the active one.
C30_Witness ==
  /\ ActiveRouteDeleted
  /\ last.before.activeRouteId \notin {"1", "2", "9"}
  /\ \A i \in 1..Len(routes) : routes[i].id # last.before.activeRouteId
  /\ activeRouteId = routes[1].id

\* C31: dispatching a command never throws, for every content of the
\* repository that the editors and the CSV import can produce (a checklist
\* saved with zero items, a route with no waypoints, no matching aerodrome):
\* the worst outcome is silence or a spoken message.
C31_DispatchNeverThrows == Handled => ~last.threw

\* What the code keeps of C31: a route query that names no plan, on an active
\* route with no waypoints, enumerates zero items and prompts.
EmptyRouteEnumerated ==
  ( /\ Dispatched
    /\ Earliest(last.dispatched[1]) = 3
    /\ ActiveRoute(routes, last.before.activeRouteId).puntosRuta = <<>>
    /\ activeRouteId = last.before.activeRouteId )
  => /\ last.said = << "El plan " \o ActiveRoute(routes, activeRouteId).name \o " tiene: . " \o iquestion \o "De cu" \o aacute \o "l quieres detalles?" >>
     /\ Appended = << UserEntry, SystemEntry("Plan " \o ActiveRoute(routes, activeRouteId).name \o ": ") >>

\* A route query was answered on a route without waypoints.
EmptyRouteQueried ==
  /\ Dispatched
  /\ Earliest(last.dispatched[1]) = 3
  /\ ActiveRoute(routes, last.before.activeRouteId).puntosRuta = <<>>
  /\ activeRouteId = last.before.activeRouteId

\* The state is the one after construction; last.before holds the blobs.
AtStartup == last.op = "startup"

\* The blob was absent or unparseable.
Unusable(blob) == blob.kind \in {"absent", "malformed"}

\* C32: at startup, for each of the four persisted blobs (checklists, routes,
\* aerodromes, active-route pointer), absent or unparseable data results in
\* the built-in seed defaults, and no parse failure escapes initialization.
C32_StartupFallsBack ==
  AtStartup =>
    /\ ~last.threw
    /\ Unusable(last.before.checklists) => checklists = INITIAL_CHECKLISTS
    /\ Unusable(last.before.routes) =>
         /\ Len(routes) = Len(INITIAL_FLIGHT_PLANS)
         /\ \A i \in 1..Len(routes) : routes[i].id = INITIAL_FLIGHT_PLANS[i].id /\ routes[i].name = INITIAL_FLIGHT_PLANS[i].name
    /\ Unusable(last.before.aerodromes) => aerodromes = INITIAL_AERODROMES
    /\ last.before.savedId = null => activeRouteId = routes[1].id

\* What the code keeps of C32: when App is mounted every absent or unparseable
\* blob gave the seeds, and the blobs of routes and aerodromes alone never make
\* the startup fail.
MountedFallsBack ==
  AtStartup =>
    /\ last.threw => \/ last.before.checklists.kind = "malformed"
                     \/ (last.before.routes.kind = "malformed" /\ last.before.savedId = null)
    /\ ~last.threw =>
         /\ Unusable(last.before.checklists) => checklists = INITIAL_CHECKLISTS
         /\ Unusable(last.before.routes) =>
              /\ Len(routes) = Len(INITIAL_FLIGHT_PLANS)
              /\ \A i \in 1..Len(routes) : routes[i].id = INITIAL_FLIGHT_PLANS[i].id /\ routes[i].name = INITIAL_FLIGHT_PLANS[i].name
         /\ Unusable(last.before.aerodromes) => aerodromes = INITIAL_AERODROMES
         /\ last.before.savedId = null => activeRouteId = routes[1].id

\* The route objects that the startup read: those of the blob, or the seeds
RoutesRead == IF last.before.routes.kind = "json" THEN last.before.routes.value ELSE INITIAL_FLIGHT_PLANS

\* The waypoint sequence that a route object carries, under either name
WaypointsOf(r) == IF r.puntosRuta # null THEN r.puntosRuta[1] ELSE r.waypoints[1]

\* 'punto 1' was dispatched while the route with id 1, whose first waypoint is
\* Salida in the seeds and in every blob, was the active one.
FirstPuntoAsked ==
  /\ Dispatched
  /\ last.dispatched = << "punto 1" >>
  /\ ActiveRoute(routes, last.before.activeRouteId).id = "1"

\* C38: after startup every route of the repository exposes its waypoint
\* sequence to the interpreter, both when the routes are loaded from persisted
\* data in the older shape and when the built-in seed routes are used because
\* nothing is persisted: with seed data 'punto 1' on the active route resolves
\* to the first waypoint of the seed route.
C38_RoutesExposeWaypoints ==
  /\ (AtStartup /\ ~last.threw) =>
       /\ Len(routes) = Len(RoutesRead)
       /\ \A i \in 1..Len(routes) : routes[i].puntosRuta = WaypointsOf(RoutesRead[i])
  /\ FirstPuntoAsked => IsPrefix("Punto de ruta Salida. Rumbo 090 grados", last.said[1])

\* What the code keeps of C38: routes read from a blob, in the older shape or
\* in the present one, expose their waypoints.
PersistedRoutesExposeWaypoints ==
  (AtStartup /\ ~last.threw /\ last.before.routes.kind = "json") =>
    /\ Len(routes) = Len(RoutesRead)
    /\ \A i \in 1..Len(routes) : routes[i].puntosRuta = WaypointsOf(RoutesRead[i])

\* The latest step started a session that no press of a button asked for: the
\* self-restart timer or the synthesis-completion timer did.
StartedUnasked == rec.started.how \in {"self", "synth"}

\* C33: after a speech-recognition failure (permission denied, network error
\* or another error event) the failure is shown as a status that persists, and
\* the Input Channel stays inert, starting no recognition session, until the
\* user presses retry or re-enables recognition.
C33_FailureKeepsChannelInert ==
  [][(rec.micError # "" /\ ~rec.retried)
       => (rec'.micError # "" /\ ~StartedUnasked')]_vars

\* What the code keeps of C33: the status is cleared by the start event of a
\* session only, and the retry button and the microphone button start a
\* session while the status is shown.
StatusClearedByStart ==
  [][(rec.micError # "" /\ rec'.micError = "")
       => \E i \in 1..Len(rec.sessions) : rec.sessions[i].fresh /\ rec.sessions[i].phase = "running"]_vars

\* The status of a failure is shown, the user has not acted, and the failed
\* session is about to start itself again.
FailedSessionScheduled ==
  /\ rec.micError = "Error de red"
  /\ ~rec.retried
  /\ \E i \in 1..Len(rec.sessions) : rec.sessions[i].timer

\* C40: isSpeaking is true only while an utterance is in flight, and after
\* every utterance, whether it finishes, is preempted by a new speak, is
\* stopped with stop() or fails, isSpeaking eventually becomes false again, so
\* that in speaker mode the guard cannot discard incoming commands forever.
C40_SpeakingEnds ==
  /\ [](isSpeaking => synth # <<>>)
  /\ (isSpeaking ~> ~isSpeaking)

\* What the code keeps of C40: after the end event of an utterance and after
\* stopSpeaking the flag is down.
EndAndStopLowerTheFlag ==
  [][((synth # <<>> /\ synth[1].phase = "speaking" /\ synth' = <<>> /\ last'.op # "utteranceOnerror")
        \/ (last'.op = "onresult" /\ last'.stopped /\ last'.said = <<>>))
       => ~isSpeaking']_vars

\* An utterance failed while it was spoken in speaker mode: the flag is up
\* and nothing is in flight.
FailedWhileSpoken ==
  /\ last.op = "utteranceOnerror"
  /\ listeningMode = "speaker"
  /\ isSpeaking
  /\ synth = <<>>

\* C36: no progression is lost: after a selection and k dispatched 'siguiente'
\* with the checklist not yet completed the index has grown by exactly k,
\* also when the results are handled before stateRef is stored again.
C36_NoProgressionLost ==
  (run # <<>> /\ run[1].k < Len(run[1].cl.items)) =>
    (activeChecklist = << run[1].cl >> /\ checklistIndex - run[1].k = 0)

\* C36: with stateRef stored again between two results no progression is
\* lost.
ProgressionKeptWhenStored ==
  (run # <<>> /\ run[1].k < Len(run[1].cl.items) /\ stateRef.checklistIndex = checklistIndex
     /\ stateRef.activeChecklist = activeChecklist /\ stateRef.appState = appState) =>
    checklistIndex <= run[1].k

\* C36: two 'siguiente' have been dispatched on a checklist of three items.
TwoProgressionsDispatched ==
  run # <<>> /\ run[1].k = 2 /\ Len(run[1].cl.items) = 3

\* C34: what handleCommand consults in stateRef.current is the current state.
ResultReadsCurrent ==
  /\ stateRef.appState = appState
  /\ stateRef.isSpeaking = isSpeaking
  /\ stateRef.listeningMode = listeningMode
  /\ stateRef.isRecognitionEnabled = isRecognitionEnabled

\* C34: the state at the time a restart timer fires permits the restart.
RestartPermitted ==
  isRecognitionEnabled /\ (listeningMode = "headphones" \/ ~isSpeaking)

\* C34: a recognition result that fires consults the values of the latest
\* state change, never older ones, and a restart timer that starts a session
\* does so on the values at the time it fires.
C34_CallbacksReadCurrentState ==
  [][ /\ (last'.op = "onresult" /\ stateRef' = stateRef) => ResultReadsCurrent
      /\ (rec'.started.how = "self" /\ rec' # rec) => RestartPermitted ]_vars

\* C34: a result was handled while stateRef still held the state of before
\* the latest commit.
ResultHandledOnOlderState ==
  last.op = "onresult" /\ stateRef.postponed /\ stateRef.appState = "idle" /\ appState = "checklist"

\* A step of an editor of checklists or of the CSV import has just been taken.
ChecklistEdited == last.op \in {"handleImportCSV", "deleteChecklist", "typeItemText"}

\* C37: the active checklist is held by value: while it is traversed its items
\* are those it had when it was selected, and an edit, a delete or a CSV
\* import of the repository changes neither its items nor checklistIndex.
C37_ActiveChecklistHeldByValue ==
  /\ (run # <<>> /\ activeChecklist # null) => activeChecklist[1].items = run[1].cl.items
  /\ ChecklistEdited =>
       (activeChecklist = last.before.activeChecklist /\ checklistIndex = last.before.checklistIndex)

\* C37: what holds: a delete leaves the active checklist and the index as they
\* were, and no step of an editor or of the import changes checklistIndex or
\* the id and the name of the active checklist.
DeleteKeepsTheActiveChecklist ==
  /\ last.op = "deleteChecklist" =>
       (activeChecklist = last.before.activeChecklist /\ checklistIndex = last.before.checklistIndex)
  /\ ChecklistEdited =>
       /\ checklistIndex = last.before.checklistIndex
       /\ (activeChecklist = null) = (last.before.activeChecklist = null)
       /\ activeChecklist # null =>
            /\ activeChecklist[1].id = last.before.activeChecklist[1].id
            /\ activeChecklist[1].name = last.before.activeChecklist[1].name

\* C37: the active checklist was deleted from the repository while it was
\* traversed.
ActiveChecklistDeleted ==
  /\ last.op = "deleteChecklist" /\ activeChecklist # null
  /\ ChecklistAt(checklists, activeChecklist[1].id) = 0

\* C35: the interpreter only reads the repository: a dispatch leaves the
\* checklists, the routes with their waypoints, the aerodromes and the
\* active-route selection as they were.
C35_DispatchOnlyReads ==
  [][ last'.op = "onresult" =>
        /\ checklists' = checklists
        /\ routes' = routes
        /\ aerodromes' = aerodromes
        /\ activeRouteId' = activeRouteId ]_vars

\* C35: what holds: a dispatch leaves the checklists, the routes and the
\* aerodromes as they were and the Session Log it found is a prefix of the
\* one it leaves.
DispatchKeepsTheRepository ==
  [][ last'.op = "onresult" =>
        /\ <<checklists, routes, aerodromes>>' = <<checklists, routes, aerodromes>>
        /\ Len(logs') >= Len(logs)
        /\ SubSeq(logs', 1, Len(logs)) = logs ]_vars

\* C35: a route was loaded by voice that was not the active one.
RouteLoadedByVoice ==
  /\ Handled /\ Includes(Heard, "cargar")
  /\ activeRouteId # last.before.activeRouteId

\* The command of the latest run went to the route, aerodrome, help or repeat
\* branch of the cascade.
Informative ==
  /\ Dispatched
  /\ Earliest(last.dispatched[1]) # 0
  /\ Rules[Earliest(last.dispatched[1])] \in {"route", "aerodrome", "help", "repeat"}

\* The latest run was an information command heard during a checklist.
InformedDuringChecklist ==
  Informative /\ last.before.appState = "checklist" /\ last.before.activeChecklist # null

\* C39: a query of a route or an aerodrome, help and repeat never change
\* activeChecklist or checklistIndex and never take the mode out of
\* checklist, so the 'siguiente' that follows reads the item after the one
\* the checklist was at.
C39_InformationKeepsTheChecklist ==
  /\ Informative => ChecklistKept
  /\ InformedDuringChecklist => appState = "checklist"
  /\ (Dispatched /\ last.dispatched = << "siguiente" >> /\ last.before.appState = "checklist"
        /\ last.before.activeChecklist # null
        /\ last.before.checklistIndex + 1 < Len(last.before.activeChecklist[1].items)) =>
       /\ checklistIndex = last.before.checklistIndex + 1
       /\ last.said = << last.before.activeChecklist[1].items[checklistIndex + 1].text >>

\* C39: help was asked for during a checklist that was at its first item.
C39_Witness ==
  /\ InformedDuringChecklist
  /\ Rules[Earliest(last.dispatched[1])] = "help"
  /\ last.before.checklistIndex = 0

====
